---- MODULE Spec2Model ----
(***************************************************************************)
(* A model of the cooperative virtual-time kernel of HECS-CPS-Sim          *)
(* (src/cps_coro_lib.h): cps_coro::Scheduler, cps_coro::Task, the Delay    *)
(* and EventAwaiter awaitables, and coroutines built on them.              *)
(*                                                                         *)
(* One action of the model is one call made by the code that owns the      *)
(* scheduler (main, avc_test): creating a task, run_one_step, run_until,   *)
(* trigger_event; SpecSchedule adds schedule, SpecClock adds set_time and  *)
(* advance_time, called directly by the owner.                             *)
(* A call includes everything it runs: resuming a coroutine runs its body  *)
(* up to the next suspension, and a trigger_event inside that body runs    *)
(* the subscribed coroutines nested inside the call, exactly as            *)
(* handler_func(...) -> h.resume() does.                                   *)
(***************************************************************************)
EXTENDS Integers, Sequences, FiniteSets, TLC

(***************************************************************************)
(* Bounds of the model.                                                    *)
(***************************************************************************)
\* run_one_step and run_until are not called beyond this virtual time
MaxTime == 3
\* coroutines created in one run
MaxTasks == 2
\* timed_tasks_.emplace calls in one run
MaxTimers == 4
\* event_handlers_.emplace calls in one run
MaxSubs == 5

(***************************************************************************)
(* Program values.                                                         *)
(***************************************************************************)
\* the null payload pointer of trigger_event(EventId): handler_func(nullptr)
NoData == 0
\* EventData event_data_ {} : the value-initialised payload of an awaiter
DefaultData == 0
\* two event ids (the repository's are 1..200; two are enough to tell
\* subscribers of one id from subscribers of another)
EventIds == {1, 2}
\* payloads passed by the owner of the scheduler
Payloads == {1}
\* entities the owner of a Registry emplaces into and looks up
MaxEntities == 2
\* coroutines, subscriptions and timers of a protection run
MaxProtTasks == 8
MaxProtSubs == 7
MaxProtTimers == 8
\* virtual time and subscriptions of a run of the breaker agents
MaxBreakerTime == 300
MaxBreakerSubs == 6

(***************************************************************************)
(* Coroutine bodies.  A body is a list of statements; `loop` says whether  *)
(* it is wrapped in while (true).  Statements:                             *)
(*   delay n      co_await cps_coro::delay(n)                              *)
(*   wait n       co_await cps_coro::wait_for_event<T>(n)                  *)
(*   trigger n v  scheduler.trigger_event(n, v)                            *)
(*   spawn n      auto t = <coroutine n>(...); t.detach();                 *)
(*   delay_arg n    co_await cps_coro::delay(<argument n>)                  *)
(*   trigger_arg n v  scheduler.trigger_event(n, <argument v>)              *)
(*   unless_self  if (<received value> == <argument 1>) { ... }: the rest  *)
(*                of the loop body is skipped when they differ              *)
(*   dispatch     the statements of ProtectionSystem::run after its        *)
(*                co_await: calculate_impedance_if_needed and for_each     *)
(***************************************************************************)
I_delay(d) == [op |-> "delay", n |-> d, v |-> 0]
I_wait(id) == [op |-> "wait", n |-> id, v |-> 0]
I_trigger(id, data) == [op |-> "trigger", n |-> id, v |-> data]
I_spawn(sc) == [op |-> "spawn", n |-> sc, v |-> 0]
I_delay_arg(k) == [op |-> "delay_arg", n |-> k, v |-> 0]
I_trigger_arg(id, k) == [op |-> "trigger_arg", n |-> id, v |-> k]
I_unless_self == [op |-> "unless_self", n |-> 0, v |-> 0]
I_dispatch == [op |-> "dispatch", n |-> 0, v |-> 0]

\* frequencyOracleTask: while (true) { co_await delay(step); trigger_event(FREQUENCY_UPDATE_EVENT, info); }
OracleBody == [code |-> <<I_delay(1), I_trigger(1, 3)>>, loop |-> TRUE]
\* vppFrequencyResponseTask, avc_coroutine: while (true) { co_await wait_for_event<T>(id); ... }
ListenerBody == [code |-> <<I_wait(1)>>, loop |-> TRUE]
\* circuitBreakerAgentTask_prot, own id tripped: wait_for_event, delay(100), trigger_event(BREAKER_OPENED_EVENT)
BreakerBody == [code |-> <<I_wait(2), I_delay(1), I_trigger(1, 3)>>, loop |-> TRUE]
\* ProtectionSystem::trip_later: co_await delay(delay_ms); trigger_event(ENTITY_TRIP_EVENT_PROT, id)
TripLaterBody == [code |-> <<I_delay(2), I_trigger(2, 3)>>, loop |-> FALSE]
\* ProtectionSystem::trip_later with delay_ms = 0 (distance zone 1, t1 = 0)
TripNowBody == [code |-> <<I_delay(0), I_trigger(2, 3)>>, loop |-> FALSE]
\* ProtectionSystem::run: while (true) { co_await wait_for_event; ... trip_later(...).detach(); }
EngineBody == [code |-> <<I_wait(1), I_spawn(4)>>, loop |-> TRUE]
\* a listener that answers an event by triggering the same event again
RelayBody == [code |-> <<I_wait(1), I_trigger(1, 3)>>, loop |-> TRUE]

\* faultInjectorTask_prot: co_await delay(6000); inject_fault(fault1); co_await delay(7000);
\* inject_fault(fault2); co_return;  (here with delays 2 and 1)
InjectorBody == [code |-> <<I_delay(2), I_trigger(1, 3), I_delay(1), I_trigger(1, 3)>>, loop |-> FALSE]

\* event ids of simulation_events_and_data.h
BREAKER_OPENED_EVENT == 6
FAULT_INFO_EVENT_PROT == 100
ENTITY_TRIP_EVENT_PROT == 101

\* The coroutines of protection_system.cpp, with their arguments and data.
\* ProtectionSystem::trip_later(protected_entity_id, delay_ms, ...)
trip_later_Body == [code |-> <<I_delay_arg(2), I_trigger_arg(ENTITY_TRIP_EVENT_PROT, 1)>>, loop |-> FALSE]
\* ProtectionSystem::run()
ProtectionSystem_run_Body == [code |-> <<I_wait(FAULT_INFO_EVENT_PROT), I_dispatch>>, loop |-> TRUE]
\* faultInjectorTask_prot(protSystem, line1_id, transformer1_id, scheduler)
faultInjectorTask_prot_Body ==
    [code |-> <<I_delay(6000), I_trigger(FAULT_INFO_EVENT_PROT, 1),
                I_delay(7000), I_trigger(FAULT_INFO_EVENT_PROT, 2)>>,
     loop |-> FALSE]
\* a breaker agent without its "if (tripped_entity_id == associated_entity_id)"
circuitBreakerAgentTask_prot_Body_NoCheck ==
    [code |-> <<I_wait(ENTITY_TRIP_EVENT_PROT), I_delay(100),
                I_trigger_arg(BREAKER_OPENED_EVENT, 1)>>,
     loop |-> TRUE]

\* circuitBreakerAgentTask_prot(associated_entity_id, entity_name, scheduler)
circuitBreakerAgentTask_prot_Body ==
    [code |-> <<I_wait(ENTITY_TRIP_EVENT_PROT), I_unless_self, I_delay(100),
                I_trigger_arg(BREAKER_OPENED_EVENT, 1)>>,
     loop |-> TRUE]

Scripts == <<OracleBody, ListenerBody, BreakerBody, TripLaterBody, TripNowBody, EngineBody, RelayBody,
             InjectorBody,
             trip_later_Body, ProtectionSystem_run_Body, faultInjectorTask_prot_Body,
             circuitBreakerAgentTask_prot_Body>>

\* the place of a body in Scripts
ScriptOf(body) == CHOOSE sc \in 1..Len(Scripts) : Scripts[sc] = body

\* the bodies the owner of Spec, SpecSchedule and SpecClock starts
CoreScripts == {sc \in 1..Len(Scripts) :
                  Scripts[sc] \in {OracleBody, ListenerBody, BreakerBody, TripLaterBody,
                                   TripNowBody, EngineBody, RelayBody}}

\* a coroutine that never waits for an event
NoWait(sc) == \A i \in 1..Len(Scripts[sc].code) : Scripts[sc].code[i].op # "wait"

(***************************************************************************)
(* State.                                                                  *)
(***************************************************************************)
VARIABLES
    now,        \* Scheduler::current_time_ (ms)
    ready,      \* Scheduler::ready_tasks_: FIFO of coroutine handles
    timers,     \* Scheduler::timed_tasks_: multimap deadline -> handle, as its iteration order;
                \* an element is [key, h, seq], seq numbering the emplace calls
    handlers,   \* Scheduler::event_handlers_: multimap event id -> handler, as its iteration order;
                \* an element is [key, h, seq], h the coroutine the handler resumes
    active,     \* AwaiterBase::active_scheduler_: "this" (the scheduler whose members are the
                \* variables above), "other" (a second Scheduler object) or "none" (nullptr)
    alive,      \* the Scheduler objects constructed and not destroyed, among "this" and "other"
    otherq,     \* the continuations registered with the second scheduler, in order
    tasks,      \* the coroutine frames: body, position, state, the awaiter's event_data_
    tseq,       \* number of timed_tasks_.emplace calls so far
    sseq,       \* number of event_handlers_.emplace calls so far
    fired,      \* the subscriptions whose handler has been called
    ub,         \* a coroutine that was not suspended has been resumed (undefined behaviour)
    components, \* Registry::components_: type key -> (entity -> component)
    last_id,    \* Registry::last_id_
    preg,       \* the registry when the last call was made
    ret,        \* what the last call of a Registry member returned
    openings,   \* the BREAKER_OPENED_EVENTs triggered so far: <<entity, virtual time>>, in order
    running,    \* the call of run_until in progress: its end_time and the place it has reached
                \* ("none": no call in progress)
    freq_configs,  \* the registry's FrequencyControlConfigComponent of each entity that has one
    phys_states,   \* the registry's PhysicalStateComponent of each entity that has one
    ev_entities,   \* main()'s ev_pile_entities_freq
    ess_entities,  \* main()'s ess_unit_entities_freq
    vpp,        \* the locals of the vppFrequencyResponseTask coroutines, in subscription order
    oracle,     \* frequencyOracleTask: its simulation_step_ms and the last record it wrote
    fpre,       \* phys_states and vpp when the last FREQUENCY_UPDATE_EVENT was triggered
    fdone,      \* what the controllers did on that event and on the one before, which devices
                \* were ever updated, and the number of events
    op,         \* the last call made by the owner of the scheduler
    pre,        \* the scheduler and the coroutines when that call was made
    log         \* what that call did, in order

vars == <<now, ready, timers, handlers, active, alive, otherq, tasks, tseq, sseq, fired, ub,
          components, last_id, preg, ret, openings, running,
          freq_configs, phys_states, ev_entities, ess_entities, vpp, oracle, fpre, fdone,
          op, pre, log>>

\* the frequency-response system's part of the state
freqvars == <<freq_configs, phys_states, ev_entities, ess_entities, vpp, oracle, fpre, fdone>>

\* the scheduler's, the coroutines' and the protection registry's part of the state
corevars == <<now, ready, timers, handlers, active, alive, otherq, tasks, tseq, sseq, fired, ub,
              components, last_id, preg, ret, openings, running, pre, log>>

\* the state as one record, as the operators below pass it on
Cur == [now |-> now, ready |-> ready, timers |-> timers, handlers |-> handlers,
        active |-> active, otherq |-> otherq, tasks |-> tasks, tseq |-> tseq, sseq |-> sseq,
        fired |-> fired, ub |-> ub, components |-> components, last_id |-> last_id,
        log |-> <<>>, stack |-> <<>>, lvl |-> 0]

(***************************************************************************)
(* The record of one call.  An entry is                                    *)
(*   [k, h, a, b, who, lvl, now, rl]                                       *)
(* who = the coroutine running when it happened (0: none), lvl = the       *)
(* number of trigger_event calls in progress, now = current_time_ and      *)
(* rl = ready_tasks_.size() at that moment.  Kinds:                        *)
(*   push     h appended to ready_tasks_; a = its deadline if it comes     *)
(*            from timed_tasks_ (else -1), b = its timer's number          *)
(*   pop      h removed from the front; a = 1 if resumed, 0 if h.done()    *)
(*   resume   h.resume(): a = 0 from ready_tasks_, 1 from an event         *)
(*            handler, 2 its creation, 3 from await_suspend, 4 from the    *)
(*            second scheduler, 5 from Task::resume; b = the subscription's *)
(*            number when a = 1                                            *)
(*   park     h suspends: a = 0 in Delay (b = deadline), 1 in              *)
(*            EventAwaiter (b = event id), 2 at final_suspend, 3 in an     *)
(*            awaiter registered with the second scheduler                 *)
(*   timer    timed_tasks_.emplace: a = deadline, b = the timer's number   *)
(*   sub      event_handlers_.emplace: a = event id, b = its number        *)
(*   time     set_time: a = the new time, b = the earliest deadline in     *)
(*            timed_tasks_ (-1 if it is empty)                             *)
(*   visit    the function passed to Registry::for_each is called with     *)
(*            entity a and component b                                     *)
(*   trig     trigger_event called: a = event id, b = payload              *)
(*   handler  a handler is called: a = subscription's number, b = the      *)
(*            value await_resume() will return                             *)
(*   trigend  trigger_event returns: a = event id, b = handlers called     *)
(***************************************************************************)
Top(stk) == IF stk = <<>> THEN 0 ELSE stk[Len(stk)]

Ev(s, k, h, a, b) ==
    [k |-> k, h |-> h, a |-> a, b |-> b, who |-> Top(s.stack), lvl |-> s.lvl,
     now |-> s.now, rl |-> Len(s.ready)]

Log(s, k, h, a, b) == [s EXCEPT !.log = Append(@, Ev(s, k, h, a, b))]

(***************************************************************************)
(* std::multimap.  emplace puts the new element at the upper bound of its  *)
(* key: after every element whose key is not greater.                      *)
(***************************************************************************)
UpperBound(seq, key) == Cardinality({i \in 1..Len(seq) : seq[i].key <= key})

\* emplace that puts an element before the elements of equal key
MultimapEmplace_LowerBound(seq, e) ==
    LET n == Cardinality({i \in 1..Len(seq) : seq[i].key < e.key})
    IN  SubSeq(seq, 1, n) \o <<e>> \o SubSeq(seq, n + 1, Len(seq))

MultimapEmplace(seq, e) ==
    LET n == UpperBound(seq, e.key)
    IN  SubSeq(seq, 1, n) \o <<e>> \o SubSeq(seq, n + 1, Len(seq))

\* a range that runs over the whole map, whatever the key
EqualRange_WholeMap(seq, key) == seq

EqualRange(seq, key) == SelectSeq(seq, LAMBDA e : e.key = key)

EraseRange(seq, key) == SelectSeq(seq, LAMBDA e : e.key # key)

(***************************************************************************)
(* Scheduler: time and queues.                                             *)
(***************************************************************************)
MinKey(s) == IF s.timers = <<>> THEN -1 ELSE s.timers[1].key

set_time(s, new_time) ==
    [Log(s, "time", 0, new_time, MinKey(s)) EXCEPT !.now = new_time]

advance_time(s, delta) == [s EXCEPT !.now = @ + delta]

\* a push at the front of the ready queue
ReadyPush_Front(s, h, key, n) ==
    [Log(s, "push", h, key, n) EXCEPT !.ready = <<h>> \o @]

ReadyPush(s, h, key, n) ==
    [Log(s, "push", h, key, n) EXCEPT !.ready = Append(@, h)]

schedule(s, h) == ReadyPush(s, h, -1, 0)

\* schedule_after with the deadline at the current time, whatever the delay
schedule_after_Now(s, delay, h) ==
    LET n == s.tseq + 1
        e == [key |-> s.now, h |-> h, seq |-> n]
    IN  [Log(s, "timer", h, e.key, n) EXCEPT
            !.timers = MultimapEmplace(@, e), !.tseq = n]

schedule_after(s, delay, h) ==
    LET n == s.tseq + 1
        e == [key |-> s.now + delay, h |-> h, seq |-> n]
    IN  [Log(s, "timer", h, e.key, n) EXCEPT
            !.timers = MultimapEmplace(@, e), !.tseq = n]

register_event_handler(s, event_id, h) ==
    LET n == s.sseq + 1
        e == [key |-> event_id, h |-> h, seq |-> n]
    IN  [Log(s, "sub", h, event_id, n) EXCEPT
            !.handlers = MultimapEmplace(@, e), !.sseq = n]

(***************************************************************************)
(* Registry (ecs_core.h).  components_ maps typeid(Comp).hash_code() to a  *)
(* map from entity to the component; both maps hold one element per key.   *)
(* A component is written as the number of its constructor call in         *)
(* ComponentTable; 0 is the null pointer.  Currents are in 0.1 kA,         *)
(* impedances in 0.01 Ohm, times in ms.                                    *)
(***************************************************************************)
OCP(pickup_current_kA, delay_ms) ==
    [kind |-> "OverCurrentProtection", pickup_current_kA |-> pickup_current_kA,
     fixed_delay_ms |-> delay_ms, z_set |-> <<0, 0, 0>>, t_ms |-> <<0, 0, 0>>]

DIST(z1, t1, z2, t2, z3, t3) ==
    [kind |-> "DistanceProtection", pickup_current_kA |-> 0, fixed_delay_ms |-> 0,
     z_set |-> <<z1, z2, z3>>, t_ms |-> <<t1, t2, t3>>]

\* the components main() constructs, and a second setting of each class
ComponentTable ==
    << OCP(50, 200),                          \* OverCurrentProtection(5.0, 200, "OC-L1P-Fast")
       DIST(500, 0, 1500, 300, 2500, 700),    \* DistanceProtection(5.0, 0, 15.0, 300, 25.0, 700)
       OCP(25, 300),                          \* OverCurrentProtection(2.5, 300, "OC-T1P-Main")
       DIST(500, 0, 1000, 300, 2000, 700) >>

\* the classes derived from IComponent
ComponentTypes == {"ProtectiveComp", "OverCurrentProtection", "DistanceProtection"}

\* typeid(Comp).hash_code(): one value per type, different types of this
\* program having different values
hash_code(type) ==
    CASE type = "ProtectiveComp" -> 1
      [] type = "OverCurrentProtection" -> 2
      [] type = "DistanceProtection" -> 3

\* std::unordered_map::operator[](k) = v: inserts k or assigns to it
MapAssign(m, k, v) == [x \in (DOMAIN m) \cup {k} |-> IF x = k THEN v ELSE m[x]]

\* std::unordered_map::try_emplace(k, v): leaves an element that exists
MapTryEmplace(m, k, v) == [x \in (DOMAIN m) \cup {k} |-> IF x \in DOMAIN m THEN m[x] ELSE v]

\* Entity create() { return ++last_id_; }
Registry_create(s) == [s EXCEPT !.last_id = @ + 1]

\* emplace that keeps the component the pair already has
Registry_emplace_KeepOld(s, e, c) ==
    LET key == hash_code(ComponentTable[c].kind)
        inner == IF key \in DOMAIN s.components THEN s.components[key] ELSE <<>>
    IN  [s EXCEPT !.components = MapAssign(@, key, MapTryEmplace(inner, e, c))]

\* registry.emplace<Comp>(e, args...), Comp the class of component c:
\*   components_[typeid(Comp).hash_code()][e] = std::move(ptr);
Registry_emplace(s, e, c) ==
    LET key == hash_code(ComponentTable[c].kind)
        inner == IF key \in DOMAIN s.components THEN s.components[key] ELSE <<>>
    IN  [s EXCEPT !.components = MapAssign(@, key, MapAssign(inner, e, c))]

\* registry.get<Comp>(e): find in both maps, nullptr if either has no element
Registry_get(comps, type, e) ==
    IF hash_code(type) \notin DOMAIN comps
    THEN 0
    ELSE IF e \notin DOMAIN comps[hash_code(type)]
         THEN 0
         ELSE comps[hash_code(type)][e]

(***************************************************************************)
(* Protection (protection_system.cpp, simulation_events_and_data.h).       *)
(***************************************************************************)
\* a derivation that does not look at the impedance the fault has
calculate_impedance_Always(fault) ==
    IF fault.voltage_kV > 0 /\ fault.current_kA > 0
    THEN [fault EXCEPT !.impedance_Ohm = (fault.voltage_kV * 1000) \div fault.current_kA]
    ELSE fault

\* FaultInfo::calculate_impedance_if_needed (V in kV, I in 0.1 kA, Z in 0.01 Ohm)
calculate_impedance_if_needed(fault) ==
    IF fault.impedance_Ohm = 0 /\ fault.voltage_kV > 0 /\ fault.current_kA > 0
    THEN [fault EXCEPT !.impedance_Ohm = (fault.voltage_kV * 1000) \div fault.current_kA]
    ELSE fault

\* The FaultInfo objects passed to inject_fault; an event payload is the
\* number of its FaultInfo in this table.
\*   1: fault1 of faultInjectorTask_prot: line, 15.0 kA, 220 kV, (220.0 / 15.0) * 0.8 Ohm
\*   2: fault2 of faultInjectorTask_prot: transformer, 3.0 kA, 220 kV, impedance calculated
\*   3: a fault of no entity, 6.0 kA, impedance left to the engine
\*   4: a close-in fault of the line, 15.0 kA, 4.0 Ohm (within zone 1 of main()'s relay)
FaultTable ==
    << [faulty_entity_id |-> 1, current_kA |-> 150, voltage_kV |-> 220, impedance_Ohm |-> 1173],
       calculate_impedance_if_needed(
         [faulty_entity_id |-> 2, current_kA |-> 30, voltage_kV |-> 220, impedance_Ohm |-> 0]),
       [faulty_entity_id |-> 0, current_kA |-> 60, voltage_kV |-> 220, impedance_Ohm |-> 0],
       [faulty_entity_id |-> 1, current_kA |-> 150, voltage_kV |-> 220, impedance_Ohm |-> 400] >>

\* pick_up with a backup zone that ends before its setting
pick_up_Short(comp, fault_data, self_entity_id) ==
    IF comp.kind = "OverCurrentProtection"
    THEN fault_data.current_kA >= comp.pickup_current_kA
    ELSE IF fault_data.faulty_entity_id # self_entity_id /\ fault_data.faulty_entity_id # 0
         THEN fault_data.impedance_Ohm < comp.z_set[3]
         ELSE \/ fault_data.impedance_Ohm <= comp.z_set[1]
              \/ fault_data.impedance_Ohm <= comp.z_set[2]
              \/ fault_data.impedance_Ohm <= comp.z_set[3]

\* OverCurrentProtection::pick_up, DistanceProtection::pick_up
pick_up(comp, fault_data, self_entity_id) ==
    IF comp.kind = "OverCurrentProtection"
    THEN fault_data.current_kA >= comp.pickup_current_kA
    ELSE IF fault_data.faulty_entity_id # self_entity_id /\ fault_data.faulty_entity_id # 0
         THEN fault_data.impedance_Ohm <= comp.z_set[3]
         ELSE \/ fault_data.impedance_Ohm <= comp.z_set[1]
              \/ fault_data.impedance_Ohm <= comp.z_set[2]
              \/ fault_data.impedance_Ohm <= comp.z_set[3]

\* trip_delay_ms without the test of the third zone
trip_delay_ms_TwoZones(comp, fault_data) ==
    IF comp.kind = "OverCurrentProtection"
    THEN comp.fixed_delay_ms
    ELSE IF fault_data.impedance_Ohm <= comp.z_set[1] THEN comp.t_ms[1]
         ELSE IF fault_data.impedance_Ohm <= comp.z_set[2] THEN comp.t_ms[2]
         ELSE 99999

\* OverCurrentProtection::trip_delay_ms, DistanceProtection::trip_delay_ms
trip_delay_ms(comp, fault_data) ==
    IF comp.kind = "OverCurrentProtection"
    THEN comp.fixed_delay_ms
    ELSE IF fault_data.impedance_Ohm <= comp.z_set[1] THEN comp.t_ms[1]
         ELSE IF fault_data.impedance_Ohm <= comp.z_set[2] THEN comp.t_ms[2]
         ELSE IF fault_data.impedance_Ohm <= comp.z_set[3] THEN comp.t_ms[3]
         ELSE 99999

(***************************************************************************)
(* Coroutines.  tasks[h] is the frame of coroutine h:                      *)
(*   script, pc   its body and the next statement to execute               *)
(*   under        active_scheduler_ when the coroutine was created         *)
(*   owner        the Task object returned by the creation: "held" (its    *)
(*                handle_ is the coroutine), "detached" (detach() has set  *)
(*                handle_ to nullptr) or "gone" (the object is destroyed)  *)
(*   status       "running", "suspended", "done" (at final_suspend) or     *)
(*                "destroyed" (handle.destroy() has freed the frame)       *)
(*   rx           event_data_ of the EventAwaiter it last awaited          *)
(*   wake         the deadline of the Delay it is suspended in, else -1    *)
(*   wait         the event id of the EventAwaiter it is suspended in,     *)
(*                else 0                                                   *)
(*   args         the arguments the coroutine function was called with     *)
(***************************************************************************)
Frame(sc) == [script |-> sc, pc |-> 1, status |-> "running", rx |-> DefaultData,
              wake |-> -1, wait |-> 0, under |-> "this", owner |-> "detached",
              args |-> <<>>]

Done(s, h) == s.tasks[h].status = "done"

\* Delay::await_ready
Delay_await_ready(delay_time) == delay_time <= 0

\* the coroutine is left suspended in a Delay whose timer is at now + delay_time
ParkInDelay(s, delay_time, h) ==
    LET s1 == schedule_after(s, delay_time, h)
    IN  [Log(s1, "park", h, 0, s.now + delay_time) EXCEPT
            !.tasks[h].status = "suspended",
            !.tasks[h].wake = s.now + delay_time]

\* the coroutine is left suspended in an EventAwaiter subscribed to event_id
ParkInEvent(s, event_id, h) ==
    LET s1 == register_event_handler(s, event_id, h)
    IN  [Log(s1, "park", h, 1, event_id) EXCEPT
            !.tasks[h].status = "suspended",
            !.tasks[h].wait = event_id]

\* await_suspend when active_scheduler_ points to the second scheduler: the
\* continuation is registered there (park entry with a = 3, b = kind of awaiter)
ParkInOther(s, kind, h) ==
    [Log(s, "park", h, 3, kind) EXCEPT
        !.otherq = Append(@, h),
        !.tasks[h].status = "suspended"]

\* promise_type::final_suspend: suspend_always; the frame stays, done() is true
FinalSuspend(s, h) ==
    [Log(s, "park", h, 2, 0) EXCEPT !.tasks[h].status = "done"]

RECURSIVE RunTask(_, _)
RECURSIVE Resume(_, _, _, _)
RECURSIVE NewTask(_, _)
RECURSIVE NewTaskWith(_, _, _)
RECURSIVE ForEachIn(_, _, _, _)
RECURSIVE CallHandlers(_, _, _, _)
RECURSIVE trigger_event(_, _, _)

\* The lambda ProtectionSystem::run passes to for_each, called with the
\* component numbered c of entity entity_id (a "visit" entry of the log):
\*   if (comp.pick_up(fault_data, entity_id)) {
\*       auto sub_task = trip_later(entity_id, comp.trip_delay_ms(fault_data), ...);
\*       sub_task.detach(); }
Visit(s, c, entity_id, fault_data) ==
    LET comp == ComponentTable[c]
        s1 == Log(s, "visit", 0, entity_id, c)
    IN  IF pick_up(comp, fault_data, entity_id)
        THEN NewTaskWith(s1, ScriptOf(trip_later_Body),
                         <<entity_id, trip_delay_ms(comp, fault_data)>>)
        ELSE s1

\* for (auto const& [entity, component_ptr] : comp_map_it->second) fn(...);
\* the elements are taken in the order of their entities
ForEachIn(s, inner, rest, fault_data) ==
    IF rest = {}
    THEN s
    ELSE LET e == CHOOSE x \in rest : \A y \in rest : x <= y
         IN  ForEachIn(Visit(s, inner[e], e, fault_data), inner, rest \ {e}, fault_data)

\* registry_.for_each<Comp>(fn): the map found under typeid(Comp).hash_code()
Registry_for_each(s, type, fault_data) ==
    IF hash_code(type) \in DOMAIN s.components
    THEN ForEachIn(s, s.components[hash_code(type)],
                   DOMAIN s.components[hash_code(type)], fault_data)
    ELSE s

\* the body of coroutine h from its current position to its next suspension
RunTask(s, h) ==
    LET t == s.tasks[h]
        body == Scripts[t.script]
    IN  IF t.pc > Len(body.code)
        THEN IF body.loop
             THEN RunTask([s EXCEPT !.tasks[h].pc = 1], h)
             ELSE FinalSuspend(s, h)
        ELSE LET ins == body.code[t.pc]
                 s1 == [s EXCEPT !.tasks[h].pc = t.pc + 1]
             IN  CASE ins.op = "delay" ->
                        IF Delay_await_ready(ins.n)
                        THEN RunTask(s1, h)
                        ELSE IF s1.active = "this"
                             THEN ParkInDelay(s1, ins.n, h)
                             ELSE IF s1.active = "other"
                                  THEN ParkInOther(s1, 0, h)
                                  \* Delay::await_suspend without a scheduler: handle.resume()
                                  ELSE RunTask(Log(s1, "resume", h, 3, 0), h)
                  [] ins.op = "wait" ->
                        LET s2 == [s1 EXCEPT !.tasks[h].rx = DefaultData]
                        IN  IF s2.active = "this"
                            THEN ParkInEvent(s2, ins.n, h)
                            ELSE IF s2.active = "other"
                                 THEN ParkInOther(s2, 1, h)
                                 \* EventAwaiter::await_suspend without a scheduler: handle.resume()
                                 ELSE RunTask(Log(s2, "resume", h, 3, 0), h)
                  [] ins.op = "trigger" ->
                        RunTask(trigger_event(s1, ins.n, ins.v), h)
                  [] ins.op = "spawn" ->
                        RunTask(NewTask(s1, ins.n), h)
                  [] ins.op = "delay_arg" ->
                        IF Delay_await_ready(t.args[ins.n])
                        THEN RunTask(s1, h)
                        ELSE ParkInDelay(s1, t.args[ins.n], h)
                  [] ins.op = "trigger_arg" ->
                        RunTask(trigger_event(s1, ins.n, t.args[ins.v]), h)
                  [] ins.op = "unless_self" ->
                        IF t.rx = t.args[1]
                        THEN RunTask(s1, h)
                        ELSE RunTask([s EXCEPT !.tasks[h].pc = 1], h)
                  [] ins.op = "dispatch" ->
                        RunTask(Registry_for_each(s1, "ProtectiveComp",
                                    calculate_impedance_if_needed(FaultTable[t.rx])), h)

\* std::coroutine_handle<>::resume() on handle h.  Resuming a coroutine that
\* is not suspended is undefined: the model records it and runs nothing.
Resume(s, h, src, n) ==
    IF s.tasks[h].status # "suspended"
    THEN [s EXCEPT !.ub = TRUE]
    ELSE LET s1 == Log(s, "resume", h, src, n)
             s2 == [s1 EXCEPT !.stack = Append(@, h),
                              !.tasks[h].status = "running",
                              !.tasks[h].wake = -1,
                              !.tasks[h].wait = 0]
             s3 == RunTask(s2, h)
         IN  [s3 EXCEPT !.stack = SubSeq(@, 1, Len(@) - 1)]

\* a creation with initial_suspend = suspend_always: the frame is created
\* suspended at its beginning and nothing runs
NewTask_SuspendAlways(s, sc) ==
    [s EXCEPT !.tasks = Append(@, [Frame(sc) EXCEPT !.under = s.active,
                                                   !.status = "suspended"])]

\* Calling a coroutine function: the frame is created and, initial_suspend
\* being suspend_never, the body runs at once up to its first suspension.
NewTask(s, sc) ==
    LET h == Len(s.tasks) + 1
        s1 == [s EXCEPT !.tasks = Append(@, [Frame(sc) EXCEPT !.under = s.active])]
        s2 == Log(s1, "resume", h, 2, 0)
        s3 == RunTask([s2 EXCEPT !.stack = Append(@, h)], h)
    IN  [s3 EXCEPT !.stack = SubSeq(@, 1, Len(@) - 1)]

\* a coroutine function called with arguments
NewTaskWith(s, sc, args) ==
    LET h == Len(s.tasks) + 1
        s1 == [s EXCEPT !.tasks = Append(@, [Frame(sc) EXCEPT !.under = s.active,
                                                              !.args = args])]
        s2 == Log(s1, "resume", h, 2, 0)
        s3 == RunTask([s2 EXCEPT !.stack = Append(@, h)], h)
    IN  [s3 EXCEPT !.stack = SubSeq(@, 1, Len(@) - 1)]

\* the handler without its "if (data) event_data_ = *data;"
Handler_NoPayload(s, e, data) ==
    LET rx == s.tasks[e.h].rx
        s1 == [s EXCEPT !.fired = @ \cup {e.seq}]
    IN  Resume(Log(s1, "handler", e.h, e.seq, rx), e.h, 1, e.seq)

\* The handler registered by EventAwaiter::await_suspend:
\*   if (data) event_data_ = *data;  h.resume();
Handler(s, e, data) ==
    LET rx == IF data # NoData THEN data ELSE s.tasks[e.h].rx
        s1 == [s EXCEPT !.tasks[e.h].rx = rx, !.fired = @ \cup {e.seq}]
    IN  Resume(Log(s1, "handler", e.h, e.seq, rx), e.h, 1, e.seq)

\* a loop over handlers_to_call that ends after the first handler
CallHandlers_FirstOnly(s, handlers_to_call, i, data) ==
    IF i > Len(handlers_to_call) \/ i > 1
    THEN s
    ELSE Handler(s, handlers_to_call[1], data)

\* for (const auto& handler_func : handlers_to_call) handler_func(&data);
CallHandlers(s, handlers_to_call, i, data) ==
    IF i > Len(handlers_to_call)
    THEN s
    ELSE CallHandlers(Handler(s, handlers_to_call[i], data), handlers_to_call, i + 1, data)

\* trigger_event without its event_handlers_.erase(range.first, range.second):
\* the persistent handlers the comment at that line describes
trigger_event_NoErase(s, event_id, data) ==
    LET handlers_to_call == EqualRange(s.handlers, event_id)
        s1 == Log([s EXCEPT !.lvl = @ + 1], "trig", 0, event_id, data)
        s3 == CallHandlers(s1, handlers_to_call, 1, data)
        s4 == Log(s3, "trigend", 0, event_id, Len(handlers_to_call))
    IN  [s4 EXCEPT !.lvl = @ - 1]

\* Scheduler::trigger_event<EventData>(event_id, data), and with data = NoData
\* Scheduler::trigger_event(event_id)
trigger_event(s, event_id, data) ==
    LET handlers_to_call == EqualRange(s.handlers, event_id)
        s1 == Log([s EXCEPT !.lvl = @ + 1], "trig", 0, event_id, data)
        s2 == [s1 EXCEPT !.handlers = EraseRange(@, event_id)]
        s3 == CallHandlers(s2, handlers_to_call, 1, data)
        s4 == Log(s3, "trigend", 0, event_id, Len(handlers_to_call))
    IN  [s4 EXCEPT !.lvl = @ - 1]

(***************************************************************************)
(* Scheduler: running.                                                     *)
(***************************************************************************)
\* auto h = ready_tasks_.front(); ready_tasks_.pop(); if (!h.done()) h.resume();
PopAndResume(s) ==
    LET h == Head(s.ready)
        s1 == [s EXCEPT !.ready = Tail(@)]
    IN  IF Done(s1, h)
        THEN Log(s1, "pop", h, 0, 0)
        ELSE Resume(Log(s1, "pop", h, 1, 0), h, 0, 0)

RECURSIVE MigrateDue_Early(_)
\* the loop with "first <= current_time_ + 1" as its test
MigrateDue_Early(s) ==
    IF s.timers # <<>> /\ s.timers[1].key <= s.now + 1
    THEN LET e == s.timers[1]
             s1 == [s EXCEPT !.timers = Tail(@)]
         IN  MigrateDue_Early(ReadyPush(s1, e.h, e.key, e.seq))
    ELSE s

RECURSIVE MigrateDue(_)
\* while (!timed_tasks_.empty() && timed_tasks_.begin()->first <= current_time_) { ... }
MigrateDue(s) ==
    IF s.timers # <<>> /\ s.timers[1].key <= s.now
    THEN LET e == s.timers[1]
             s1 == [s EXCEPT !.timers = Tail(@)]
         IN  MigrateDue(ReadyPush(s1, e.h, e.key, e.seq))
    ELSE s

\* run_one_step with its two branches in the other order: the timers are
\* looked at before the ready queue
run_one_step_TimersFirst(s) ==
    IF s.timers # <<>>
    THEN MigrateDue(set_time(s, s.timers[1].key))
    ELSE IF s.ready # <<>>
         THEN PopAndResume(s)
         ELSE s

run_one_step(s) ==
    IF s.ready # <<>>
    THEN PopAndResume(s)
    ELSE IF s.timers # <<>>
         THEN MigrateDue(set_time(s, s.timers[1].key))
         ELSE s

\* the value run_one_step returns
run_one_step_result(s) == s.ready # <<>> \/ s.timers # <<>>

RECURSIVE DrainReady(_)
\* while (!ready_tasks_.empty()) { ... }
DrainReady(s) == IF s.ready # <<>> THEN DrainReady(PopAndResume(s)) ELSE s

RECURSIVE RunUntilLoop_Gt(_, _)
\* the loop with "next_event_time > end_time" as its stopping test
RunUntilLoop_Gt(s, end_time) ==
    IF s.now < end_time /\ (s.ready # <<>> \/ s.timers # <<>>)
    THEN LET s1 == DrainReady(s)
         IN  IF s1.ready = <<>> /\ s1.timers # <<>>
             THEN LET next_event_time == s1.timers[1].key
                  IN  IF next_event_time > end_time
                      THEN set_time(s1, end_time)
                      ELSE RunUntilLoop_Gt(MigrateDue(set_time(s1, next_event_time)), end_time)
             ELSE RunUntilLoop_Gt(s1, end_time)
    ELSE s

RECURSIVE RunUntilLoop(_, _)
\* the outer while loop of run_until
RunUntilLoop(s, end_time) ==
    IF s.now < end_time /\ (s.ready # <<>> \/ s.timers # <<>>)
    THEN LET s1 == DrainReady(s)
         IN  IF s1.ready = <<>> /\ s1.timers # <<>>
             THEN LET next_event_time == s1.timers[1].key
                  IN  IF next_event_time >= end_time
                      THEN set_time(s1, end_time)
                      ELSE RunUntilLoop(MigrateDue(set_time(s1, next_event_time)), end_time)
             ELSE RunUntilLoop(s1, end_time)
    ELSE s

run_until(s, end_time) ==
    LET s1 == RunUntilLoop(s, end_time)
    IN  IF s1.now < end_time THEN set_time(s1, end_time) ELSE s1

(***************************************************************************)
(* The calls made by the owner of the scheduler.                           *)
(***************************************************************************)
Init ==
    /\ now = 0
    /\ ready = <<>>
    /\ timers = <<>>
    /\ handlers = <<>>
    /\ active = "this"
    /\ alive = {"this"}
    /\ otherq = <<>>
    /\ tasks = <<>>
    /\ tseq = 0
    /\ sseq = 0
    /\ fired = {}
    /\ ub = FALSE
    /\ running = [at |-> "none", end_time |-> 0]
    /\ components = <<>>
    /\ last_id = 0
    /\ preg = [components |-> <<>>, last_id |-> 0]
    /\ ret = 0
    /\ openings = <<>>
    /\ freq_configs = <<>>
    /\ phys_states = <<>>
    /\ ev_entities = <<>>
    /\ ess_entities = <<>>
    /\ vpp = <<>>
    /\ oracle = [simulation_step_ms |-> 0, record |-> <<>>]
    /\ fpre = [phys_states |-> <<>>, vpp |-> <<>>]
    /\ fdone = [full |-> {}, fullbefore |-> {}, integrated |-> {}, updated |-> {}, samples |-> 0,
                prev |-> [name |-> "init", a |-> 0, b |-> 0, full |-> {}]]
    /\ op = [name |-> "init", a |-> 0, b |-> 0]
    /\ pre = [now |-> 0, ready |-> <<>>, timers |-> <<>>, handlers |-> <<>>,
              tasks |-> <<>>, fired |-> {}]
    /\ log = <<>>

Bounded(r) ==
    /\ r.now <= MaxTime
    /\ Len(r.tasks) <= MaxTasks
    /\ r.tseq <= MaxTimers
    /\ r.sseq <= MaxSubs

\* the BREAKER_OPENED_EVENT triggers of a call, in order
BreakerOpenings(lg) ==
    LET trigs == SelectSeq(lg, LAMBDA e : e.k = "trig" /\ e.a = BREAKER_OPENED_EVENT)
    IN  [i \in 1..Len(trigs) |-> <<trigs[i].b, trigs[i].now>>]

\* the statement `name(a, b)` takes the scheduler, the coroutines and the
\* registry to r
Effects(r, name, a, b) ==
    /\ alive' = alive
    /\ otherq' = r.otherq
    /\ now' = r.now
    /\ ready' = r.ready
    /\ timers' = r.timers
    /\ handlers' = r.handlers
    /\ active' = r.active
    /\ tasks' = r.tasks
    /\ tseq' = r.tseq
    /\ sseq' = r.sseq
    /\ fired' = r.fired
    /\ ub' = r.ub
    /\ components' = r.components
    /\ last_id' = r.last_id
    /\ preg' = [components |-> components, last_id |-> last_id]
    /\ ret' = 0
    /\ openings' = openings \o BreakerOpenings(r.log)
    /\ UNCHANGED freqvars
    /\ op' = [name |-> name, a |-> a, b |-> b]
    /\ pre' = [now |-> now, ready |-> ready, timers |-> timers, handlers |-> handlers,
               tasks |-> tasks, fired |-> fired]
    /\ log' = r.log

\* the owner's statement `name(a, b)` takes the state to r
Commit(r, name, a, b) == Effects(r, name, a, b) /\ UNCHANGED running

\* the same, within the bounds of the model
Apply(r, name, a, b) == Bounded(r) /\ Commit(r, name, a, b)

\* a call of a member of the scheduler, which exists
Call(r, name, a, b) == "this" \in alive /\ Apply(r, name, a, b)

\* auto t = coroutine(...); t.detach();  As in main() and avc_test(), the
\* owner creates its coroutines before it first runs the scheduler.
Spawn ==
    \E sc \in CoreScripts :
        /\ op.name \in {"init", "spawn"}
        /\ Call(NewTask(Cur, sc), "spawn", sc, 0)

RunOneStep == Call(run_one_step(Cur), "run_one_step", 0, 0)

RunUntil == \E end_time \in 1..MaxTime : Call(run_until(Cur, end_time), "run_until", end_time, 0)

\* scheduler.trigger_event(id, data)
TriggerEvent ==
    \E id \in EventIds, data \in Payloads :
        Call(trigger_event(Cur, id, data), "trigger_event", id, data)

\* scheduler.trigger_event(id)
TriggerEventVoid ==
    \E id \in EventIds : Call(trigger_event(Cur, id, NoData), "trigger_event", id, NoData)

Next == Spawn \/ RunOneStep \/ RunUntil \/ TriggerEvent \/ TriggerEventVoid

Spec == Init /\ [][Next]_vars

(***************************************************************************)
(* The other public members of Scheduler, called directly by the owner.    *)
(*                                                                         *)
(* schedule(h): the owner passes the handle of one of its coroutines that  *)
(* never waits for an event (resuming a coroutine parked in an             *)
(* EventAwaiter would leave a handler that points to a dead awaiter) and   *)
(* that is not in ready_tasks_ already.                                    *)
(***************************************************************************)
Handles ==
    {h \in 1..Len(tasks) :
        NoWait(tasks[h].script) /\ \A i \in 1..Len(ready) : ready[i] # h}

Schedule == \E h \in Handles : Call(schedule(Cur, h), "schedule", h, 0)

\* the owner creates coroutines that only delay and trigger
SpawnTimed ==
    \E sc \in {x \in CoreScripts : NoWait(x)} :
        /\ op.name \in {"init", "spawn"}
        /\ Call(NewTask(Cur, sc), "spawn", sc, 0)

NextSchedule == SpawnTimed \/ RunOneStep \/ RunUntil \/ Schedule

SpecSchedule == Init /\ [][NextSchedule]_vars

SetTime == \E t \in 0..MaxTime : Call(set_time(Cur, t), "set_time", t, 0)

AdvanceTime ==
    \E delta \in 1..MaxTime : Call(advance_time(Cur, delta), "advance_time", delta, 0)

NextClock == Next \/ SetTime \/ AdvanceTime

SpecClock == Init /\ [][NextClock]_vars

(***************************************************************************)
(* Task objects.  The owner keeps the Task that a coroutine function       *)
(* returns, and may call detach(), resume() and is_done() on it and let it *)
(* go out of scope.  Task::resume() is called on coroutines that never     *)
(* wait for an event (see schedule above).                                 *)
(***************************************************************************)
\* auto t = coroutine(...);  the Task keeps the handle
NewHeldTask(s, sc) ==
    LET h == Len(s.tasks) + 1
    IN  [NewTask(s, sc) EXCEPT !.tasks[h].owner = "held"]

\* Task::detach: handle_ = nullptr
Task_detach(s, h) ==
    IF s.tasks[h].owner = "held" THEN [s EXCEPT !.tasks[h].owner = "detached"] ELSE s

\* Task::is_done: !handle_ || handle_.done()
Task_is_done(ts, h) == ts[h].owner # "held" \/ ts[h].status = "done"

\* Task::resume: if (handle_ && !handle_.done()) handle_.resume();
Task_resume(s, h) ==
    IF s.tasks[h].owner = "held" /\ ~Done(s, h) THEN Resume(s, h, 5, 0) ELSE s

\* a destructor that destroys the coroutine whether or not the Task still holds it
Task_destructor_Always(s, h) ==
    IF ~Done(s, h)
    THEN [s EXCEPT !.tasks[h].status = "destroyed", !.tasks[h].owner = "gone"]
    ELSE [s EXCEPT !.tasks[h].owner = "gone"]

\* Task::~Task: if (handle_ && !handle_.done()) handle_.destroy();
Task_destructor(s, h) ==
    IF s.tasks[h].owner = "held" /\ ~Done(s, h)
    THEN [s EXCEPT !.tasks[h].status = "destroyed", !.tasks[h].owner = "gone"]
    ELSE [s EXCEPT !.tasks[h].owner = "gone"]

\* the Task objects the owner still has
TaskObjects == {h \in 1..Len(tasks) : tasks[h].owner # "gone"}

\* the bodies of the coroutines whose Task the owner keeps: one that loops
\* on an event, one that delays and ends, one that ends at once
HeldScripts ==
    {sc \in 1..Len(Scripts) : Scripts[sc] \in {ListenerBody, TripLaterBody, TripNowBody}}

SpawnHeld ==
    \E sc \in HeldScripts :
        /\ op.name \in {"init", "spawn"}
        /\ Call(NewHeldTask(Cur, sc), "spawn", sc, 0)

Detach == \E h \in TaskObjects : Call(Task_detach(Cur, h), "detach", h, 0)

TaskResume ==
    \E h \in TaskObjects :
        /\ tasks[h].owner = "held" => NoWait(tasks[h].script)
        /\ Call(Task_resume(Cur, h), "task_resume", h, 0)

\* a Task that is detached or whose coroutine is done goes out of scope
DropTask ==
    \E h \in TaskObjects :
        /\ tasks[h].owner = "detached" \/ tasks[h].status = "done"
        /\ Call(Task_destructor(Cur, h), "drop", h, 0)

NextTask ==
    \/ SpawnHeld \/ Detach \/ TaskResume \/ DropTask
    \/ RunOneStep \/ RunUntil \/ TriggerEvent

SpecTask == Init /\ [][NextTask]_vars

\* a Task that still holds a suspended coroutine goes out of scope
DropHeldTask ==
    \E h \in TaskObjects :
        /\ tasks[h].owner = "held" /\ tasks[h].status = "suspended"
        /\ Call(Task_destructor(Cur, h), "drop", h, 0)

NextDrop == SpawnHeld \/ DropHeldTask \/ RunOneStep \/ RunUntil \/ TriggerEvent

SpecDrop == Init /\ [][NextDrop]_vars

(***************************************************************************)
(* Scheduler objects come and go.  The constructor of a Scheduler stores   *)
(* `this` in the thread-local AwaiterBase::active_scheduler_; the          *)
(* destructor clears the pointer if it still points to the object.  The    *)
(* second Scheduler object is kept as the list of continuations registered *)
(* with it; when it runs, it resumes them in that order.  The coroutines   *)
(* hold a reference to the first scheduler (scheduler_, g_scheduler), so   *)
(* the owner destroys that one last and creates no coroutine after it.     *)
(***************************************************************************)
\* the bodies that end by themselves
ScopedScripts == {sc \in 1..Len(Scripts) :
                    Scripts[sc] \in {TripLaterBody, TripNowBody, InjectorBody}}

\* a statement of the owner that changes the Scheduler objects only
Lifetime(name, newAlive, newActive) ==
    /\ alive' = newAlive
    /\ active' = newActive
    /\ otherq' = <<>>
    /\ op' = [name |-> name, a |-> 0, b |-> 0]
    /\ pre' = [now |-> now, ready |-> ready, timers |-> timers, handlers |-> handlers,
               tasks |-> tasks, fired |-> fired]
    /\ log' = <<>>
    /\ UNCHANGED <<now, ready, timers, handlers, tasks, tseq, sseq, fired, ub>>
    /\ UNCHANGED <<components, last_id, preg, ret, openings, running>>
    /\ UNCHANGED freqvars

\* cps_coro::Scheduler other;
ConstructOther ==
    /\ "this" \in alive
    /\ "other" \notin alive
    /\ Lifetime("construct_other", alive \cup {"other"}, "other")

\* other.~Scheduler()
DestroyOther ==
    /\ "other" \in alive
    /\ Lifetime("destroy_other", alive \ {"other"},
                IF active = "other" THEN "none" ELSE active)

\* ~Scheduler() of the first scheduler
DestroyThis ==
    /\ alive = {"this"}
    /\ Lifetime("destroy_this", {}, IF active = "this" THEN "none" ELSE active)

\* the second scheduler resumes the continuation it has held longest
OtherStep ==
    /\ "this" \in alive
    /\ "other" \in alive
    /\ otherq # <<>>
    /\ Apply(Resume([Cur EXCEPT !.otherq = Tail(@)], Head(otherq), 4, 0),
             "other_step", Head(otherq), 0)

\* auto t = coroutine(...); t.detach();  at any moment of the run
SpawnScoped ==
    \E sc \in ScopedScripts :
        /\ "this" \in alive
        /\ Apply(NewTask(Cur, sc), "spawn", sc, 0)

NextScoped ==
    \/ SpawnScoped \/ RunOneStep \/ RunUntil \/ OtherStep
    \/ ConstructOther \/ DestroyOther \/ DestroyThis

SpecScoped == Init /\ [][NextScoped]_vars

(***************************************************************************)
(* Reading the record of the last call.                                    *)
(***************************************************************************)
Idx == DOMAIN log

IsCall(names) == op.name \in names

\* the entries of one kind, in order
Entries(k) == SelectSeq(log, LAMBDA e : e.k = k)

\* the index at which the coroutine resumed at index i suspends again
ParkOf(i) ==
    LET after == {j \in Idx : j > i /\ log[j].k = "park" /\ log[j].h = log[i].h}
    IN  IF after = {} THEN 0 ELSE CHOOSE j \in after : \A m \in after : j <= m

\* the index at which the trigger_event call entered at index i returns
TrigEndOf(i) ==
    LET after == {j \in Idx : j > i /\ log[j].k = "trigend" /\ log[j].lvl = log[i].lvl}
    IN  IF after = {} THEN 0 ELSE CHOOSE j \in after : \A m \in after : j <= m

\* now() just before the entry at index i, as the set_time calls so far give it
TimeBefore(i) ==
    LET before == {j \in Idx : j < i /\ log[j].k = "time"}
    IN  IF before = {} THEN pre.now
        ELSE log[CHOOSE j \in before : \A m \in before : m <= j].a

\* no coroutine is left running, and no undefined resume has happened
Quiescent ==
    /\ ~ub
    /\ \A h \in 1..Len(tasks) : tasks[h].status \in {"suspended", "done"}

(***************************************************************************)
(* C1.  Virtual time never goes backward: whatever calls the owner has     *)
(* made before (task creation, set_time, advance_time, trigger_event,      *)
(* run_one_step, run_until), a call of run_one_step() leaves now() greater *)
(* than or equal to its value before the call.                             *)
(* Stated as the claim states it; it fails under SpecClock.                *)
(***************************************************************************)
C1_StepNeverMovesTimeBack == IsCall({"run_one_step"}) => now >= pre.now

(***************************************************************************)
(* C2.  During run_one_step and run_until, now() changes only through a    *)
(* set_time made while the ready queue is empty, and then becomes the      *)
(* earliest pending deadline (or end_time, when run_until stops); no       *)
(* coroutine is in the middle of its run and none is waiting in the ready  *)
(* queue when that happens, so every continuation made ready by a timer    *)
(* batch or resumed by a trigger has run before now() changes again.  With *)
(* exactly one pending timer at d > now and an empty ready queue,          *)
(* run_one_step() sets now = d and moves exactly that continuation to the  *)
(* ready queue.                                                            *)
(***************************************************************************)
C2_TimeEntryOk(i) ==
    /\ log[i].rl = 0
    /\ log[i].who = 0
    /\ log[i].lvl = 0
    /\ \/ log[i].a = log[i].b
       \/ /\ IsCall({"run_until"})
          /\ log[i].a = op.a
          /\ log[i].b = -1 \/ log[i].b >= op.a
    \* everything appended to the ready queue so far has been taken from it
    /\ Len(pre.ready) + Cardinality({j \in Idx : j < i /\ log[j].k = "push"})
         = Cardinality({j \in Idx : j < i /\ log[j].k = "pop"})
    \* every coroutine resumed so far has reached its next suspension
    /\ \A j \in Idx : (j < i /\ log[j].k = "resume" /\ log[j].a # 3) =>
            (ParkOf(j) # 0 /\ ParkOf(j) < i)

C2_TimeChangesOnlyWhenReadyEmpty ==
    IsCall({"run_one_step", "run_until"}) =>
        /\ \A i \in Idx : log[i].now = TimeBefore(i)
        /\ now = TimeBefore(Len(log) + 1)
        /\ \A i \in Idx : log[i].k = "time" => C2_TimeEntryOk(i)
        /\ ( /\ IsCall({"run_one_step"})
             /\ pre.ready = <<>>
             /\ Len(pre.timers) = 1
             /\ pre.timers[1].key > pre.now )
           => ( /\ now = pre.timers[1].key
                /\ ready = <<pre.timers[1].h>>
                /\ timers = <<>> )

\* run_until has advanced the clock twice, and a trigger has resumed a
\* subscriber in between
C2_Witness ==
    /\ IsCall({"run_until"})
    /\ \E i, j, m \in Idx :
          /\ i < j /\ j < m
          /\ log[i].k = "time" /\ log[m].k = "time"
          /\ log[j].k = "handler"
          /\ log[i].a < log[m].a

\* run_one_step with exactly one pending timer and an empty ready queue
C2_WitnessSingleTimer ==
    /\ IsCall({"run_one_step"})
    /\ pre.ready = <<>>
    /\ Len(pre.timers) = 1
    /\ pre.timers[1].key > pre.now
    /\ now = pre.timers[1].key

(***************************************************************************)
(* Subscriptions as the calls recorded in the log give them: the handlers  *)
(* of event id after the first n entries, in subscription order.  A        *)
(* subscription is added where await_suspend registers it, and all of an   *)
(* event's subscriptions are taken where a trigger of that event begins.   *)
(***************************************************************************)
RECURSIVE SubscribedAfter(_, _)
SubscribedAfter(id, n) ==
    IF n = 0
    THEN SelectSeq(pre.handlers, LAMBDA e : e.key = id)
    ELSE IF log[n].k = "sub" /\ log[n].a = id
         THEN Append(SubscribedAfter(id, n - 1),
                     [key |-> id, h |-> log[n].h, seq |-> log[n].b])
         ELSE IF log[n].k = "trig" /\ log[n].a = id
              THEN <<>>
              ELSE SubscribedAfter(id, n - 1)

\* the handlers the trigger_event call entered at index i has called itself
CalledBy(i) ==
    SelectSeq(SubSeq(log, i + 1, TrigEndOf(i) - 1),
              LAMBDA e : e.k = "handler" /\ e.lvl = log[i].lvl)

\* what a subscriber's await_resume returns for a trigger with this argument
Delivered(data) == IF data = NoData THEN DefaultData ELSE data

(***************************************************************************)
(* C3.  A trigger_event(id, data) call resumes exactly the continuations   *)
(* subscribed to id when the call is made, in subscription order, each     *)
(* with this trigger's payload.  A continuation that subscribes to id      *)
(* while they are being resumed is not resumed by this trigger and is      *)
(* still subscribed afterwards, for the next trigger of id.                *)
(***************************************************************************)
C3_TriggerOk(i) ==
    LET snap == SubscribedAfter(log[i].a, i - 1)
        called == CalledBy(i)
    IN  /\ TrigEndOf(i) # 0
        /\ log[TrigEndOf(i)].a = log[i].a
        /\ Len(called) = Len(snap)
        /\ \A k \in 1..Len(snap) :
              /\ called[k].a = snap[k].seq
              /\ called[k].h = snap[k].h
              /\ called[k].b = Delivered(log[i].b)
        /\ \A k, m \in 1..Len(snap) : k < m => snap[k].seq < snap[m].seq

C3_TriggerResumesSnapshotInOrder ==
    /\ \A i \in Idx : log[i].k = "trig" => C3_TriggerOk(i)
    \* a handler resumes its coroutine at once
    /\ \A j \in Idx : log[j].k = "handler" =>
          /\ j + 1 \in Idx
          /\ log[j + 1].k = "resume"
          /\ log[j + 1].h = log[j].h
          /\ log[j + 1].a = 1
          /\ log[j + 1].b = log[j].a
    \* whoever subscribed and was not taken by a trigger since is subscribed
    /\ \A id \in EventIds :
          SelectSeq(handlers, LAMBDA e : e.key = id) = SubscribedAfter(id, Len(log))

\* a trigger made by the owner has resumed two subscribers, one of which
\* subscribed again meanwhile and is subscribed when the call returns
C3_Witness ==
    /\ IsCall({"trigger_event"})
    /\ op.b # NoData
    /\ Len(log) > 0 /\ log[1].k = "trig"
    /\ Len(CalledBy(1)) >= 2
    /\ \E m \in Idx : /\ log[m].k = "sub" /\ log[m].a = op.a /\ m < TrigEndOf(1)
                      /\ \E k \in 1..Len(handlers) : handlers[k].seq = log[m].b

(***************************************************************************)
(* C4.  Subscriptions are one-shot.  A subscription is resumed at most     *)
(* once over any sequence of triggers; when trigger_event(id, data)        *)
(* returns, none of the subscriptions that were present for id when the    *)
(* call started remains; a task is notified again only after it has        *)
(* subscribed again.                                                       *)
(***************************************************************************)
C4_SubscriptionsOneShot ==
    \* a subscription whose handler has been called is gone
    /\ \A k \in 1..Len(handlers) : handlers[k].seq \notin fired
    \* no subscription is called twice, in this call or after an earlier one
    /\ \A i, j \in Idx :
          (log[i].k = "handler" /\ log[j].k = "handler" /\ i < j) => log[i].a # log[j].a
    /\ \A i \in Idx : log[i].k = "handler" => log[i].a \notin pre.fired
    \* the trigger took every subscription its event had
    /\ IsCall({"trigger_event"}) =>
          \A k \in 1..Len(pre.handlers) : pre.handlers[k].key = op.a =>
              /\ pre.handlers[k].seq \in fired
              /\ \A m \in 1..Len(handlers) : handlers[m].seq # pre.handlers[k].seq
    \* a task is notified through a subscription of its own, made before the
    \* notification and after its previous one
    /\ \A j \in Idx : log[j].k = "handler" =>
          \/ /\ \E k \in 1..Len(pre.handlers) :
                   pre.handlers[k].seq = log[j].a /\ pre.handlers[k].h = log[j].h
             /\ \A i \in Idx : (i < j /\ log[i].k = "handler") => log[i].h # log[j].h
          \/ \E m \in Idx :
                /\ m < j
                /\ log[m].k = "sub" /\ log[m].h = log[j].h /\ log[m].b = log[j].a
                /\ \A i \in Idx : (i < j /\ log[i].k = "handler" /\ log[i].h = log[j].h) => i < m
    \* a task has at most one subscription at a time
    /\ \A k, m \in 1..Len(handlers) : handlers[k].h = handlers[m].h => k = m

\* a task that was notified before and subscribed again has been notified
\* through the new subscription, and has subscribed once more
C4_Witness ==
    /\ IsCall({"trigger_event"})
    /\ \E k \in 1..Len(pre.handlers), m \in 1..Len(handlers) :
          /\ pre.handlers[k].key = op.a
          /\ pre.handlers[k].seq \in fired
          /\ pre.fired # {}
          /\ pre.handlers[k].seq > 1
          /\ handlers[m].h = pre.handlers[k].h
          /\ handlers[m].key = op.a
          /\ handlers[m].seq > pre.handlers[k].seq

(***************************************************************************)
(* The ready queue as the log gives it.                                    *)
(***************************************************************************)
\* the handles put on the ready queue before and during the call, in order
Appended == pre.ready \o [k \in 1..Len(Entries("push")) |-> Entries("push")[k].h]

\* the handles taken from the ready queue during the call, in order
Popped == [k \in 1..Len(Entries("pop")) |-> Entries("pop")[k].h]

\* handles leave the queue in the order they entered it, and a handle that
\* leaves is resumed at once unless its coroutine is done
PoppedInAppendOrder ==
    /\ Len(Popped) <= Len(Appended)
    /\ Popped = SubSeq(Appended, 1, Len(Popped))
    /\ ready = SubSeq(Appended, Len(Popped) + 1, Len(Appended))
    /\ \A i \in Idx : (log[i].k = "pop" /\ log[i].a = 1) =>
          /\ i + 1 \in Idx
          /\ log[i + 1].k = "resume" /\ log[i + 1].h = log[i].h /\ log[i + 1].a = 0
    /\ \A i \in Idx : (log[i].k = "resume" /\ log[i].a = 0) =>
          /\ i - 1 \in Idx
          /\ log[i - 1].k = "pop" /\ log[i - 1].h = log[i].h

\* entry i records a continuation moved from the timers to the ready queue
IsMigration(i) == log[i].k = "push" /\ log[i].a >= 0

\* deadline, then insertion
Before(k1, n1, k2, n2) == k1 < k2 \/ (k1 = k2 /\ n1 < n2)

(***************************************************************************)
(* C5.  A ready continuation is always resumed before any timer is fired:  *)
(* timers are moved to the ready queue only when it is empty.  The         *)
(* continuations waiting on timers are resumed in non-decreasing deadline  *)
(* order, and two with the same deadline in the order they were inserted,  *)
(* also when they were inserted at different virtual times.                *)
(***************************************************************************)
C5_ReadyFirstThenTimersInDeadlineOrder ==
    \* timed_tasks_ is kept by deadline, and by insertion within a deadline
    /\ \A k, m \in 1..Len(timers) : k < m =>
          Before(timers[k].key, timers[k].seq, timers[m].key, timers[m].seq)
    \* a batch of timers is fired right after a set_time made with the ready
    \* queue empty, and holds only timers that are due
    /\ \A i \in Idx : IsMigration(i) =>
          /\ log[i].a <= log[i].now
          /\ \E c \in Idx :
                /\ c < i
                /\ log[c].k = "time" /\ log[c].rl = 0
                /\ \A j \in Idx : (c < j /\ j < i) => IsMigration(j)
    \* the timers fired in this call are fired in order, and before every
    \* timer that is still pending
    /\ \A i, j \in Idx : (IsMigration(i) /\ IsMigration(j) /\ i < j) =>
          Before(log[i].a, log[i].b, log[j].a, log[j].b)
    /\ \A i \in Idx, k \in 1..Len(timers) : IsMigration(i) =>
          Before(log[i].a, log[i].b, timers[k].key, timers[k].seq)
    /\ \A k \in 1..Len(timers) : timers[k].key >= now
    \* and their continuations are resumed in the order they were fired
    /\ PoppedInAppendOrder

\* two continuations with the same deadline, the first inserted before the
\* call and the second during it at a later virtual time, have been fired
\* and resumed in that order
C5_Witness ==
    /\ IsCall({"run_until"})
    /\ \E k \in 1..Len(pre.timers), c \in Idx :
          /\ log[c].k = "timer" /\ log[c].a = pre.timers[k].key
          /\ log[c].now > pre.now
          /\ \E i, j \in Idx :
                /\ i < j
                /\ IsMigration(i) /\ log[i].b = pre.timers[k].seq
                /\ IsMigration(j) /\ log[j].b = log[c].b
                /\ \E r1, r2 \in Idx :
                      /\ j < r1 /\ r1 < r2
                      /\ log[r1].k = "resume" /\ log[r1].a = 0 /\ log[r1].h = log[i].h
                      /\ log[r2].k = "resume" /\ log[r2].a = 0 /\ log[r2].h = log[j].h

(***************************************************************************)
(* C6.  The ready queue is FIFO: continuations appended by schedule() or   *)
(* by the migration of due timers are resumed in the order in which they   *)
(* were appended, under run_one_step and under run_until.                  *)
(***************************************************************************)
C6_ReadyQueueFifo == PoppedInAppendOrder /\ ~ub

\* a continuation fired from the timers and one appended after it by
\* schedule() while its own timer was still pending were both waiting, and
\* run_until has resumed them in that order
C6_Witness ==
    /\ IsCall({"run_until"})
    /\ Len(pre.ready) >= 2
    /\ pre.ready[1] # pre.ready[2]
    /\ \A k \in 1..Len(pre.timers) : pre.timers[k].h # pre.ready[1]
    /\ \E k \in 1..Len(pre.timers) : pre.timers[k].h = pre.ready[2]
    /\ Len(Entries("pop")) >= 2
    /\ Entries("pop")[1].a = 1 /\ Entries("pop")[1].h = pre.ready[1]
    /\ Entries("pop")[2].a = 1 /\ Entries("pop")[2].h = pre.ready[2]

(***************************************************************************)
(* C7.  When run_until(end_time), called with now() < end_time, returns:   *)
(* now() >= end_time, the ready queue is empty, every continuation whose   *)
(* deadline is < end_time has been fired and resumed, and no continuation  *)
(* whose deadline is >= end_time (exactly end_time included) has been:     *)
(* those timers are still pending.                                         *)
(***************************************************************************)
C7_RunUntilStopsBeforeEnd ==
    (IsCall({"run_until"}) /\ pre.now < op.a) =>
        /\ now >= op.a
        /\ ready = <<>>
        /\ \A k \in 1..Len(timers) : timers[k].key >= op.a
        \* what was fired was due before end_time and has been resumed
        /\ \A i \in Idx : IsMigration(i) =>
              /\ log[i].a < op.a
              /\ \E j \in Idx : /\ j > i
                                /\ log[j].k = "resume" /\ log[j].a = 0
                                /\ log[j].h = log[i].h
        /\ \A i \in Idx : (log[i].k = "resume" /\ log[i].a = 0) => log[i].now < op.a
        \* every timer due before end_time was fired
        /\ \A k \in 1..Len(pre.timers) : pre.timers[k].key < op.a =>
              \E i \in Idx : IsMigration(i) /\ log[i].b = pre.timers[k].seq
        /\ \A c \in Idx : (log[c].k = "timer" /\ log[c].a < op.a) =>
              \E i \in Idx : i > c /\ IsMigration(i) /\ log[i].b = log[c].b
        \* every timer due at end_time or later is pending
        /\ \A k \in 1..Len(pre.timers) : pre.timers[k].key >= op.a =>
              \E m \in 1..Len(timers) : timers[m] = pre.timers[k]
        /\ \A c \in Idx : (log[c].k = "timer" /\ log[c].a >= op.a) =>
              \E m \in 1..Len(timers) :
                  timers[m] = [key |-> log[c].a, h |-> log[c].h, seq |-> log[c].b]

\* run_until has fired a timer due before end_time and has left pending one
\* that was inserted during the call and is due exactly at end_time
C7_Witness ==
    /\ IsCall({"run_until"})
    /\ pre.now < op.a
    /\ now = op.a
    /\ \E i \in Idx : IsMigration(i)
    /\ \E c \in Idx, m \in 1..Len(timers) :
          /\ log[c].k = "timer" /\ log[c].a = op.a
          /\ timers[m].seq = log[c].b /\ timers[m].key = op.a

(***************************************************************************)
(* C9.  No interleaving except at suspension points: between two           *)
(* consecutive suspension points of a task no step of any other task       *)
(* executes, whatever the task does in between, a call of trigger_event    *)
(* included.                                                               *)
(* Stated as the claim states it; it fails under Spec.                     *)
(***************************************************************************)
C9_NoOtherTaskBetweenSuspensions ==
    \A i \in Idx : (log[i].k = "resume" /\ log[i].a # 3) =>
        \A j \in Idx : (i < j /\ j < ParkOf(i)) => log[j].who = log[i].h

\* the coroutine whose step entry j records is one that a trigger or a
\* creation made after index i has started and that has not suspended yet
NestedRun(i, j) ==
    \E r \in Idx :
        /\ i < r /\ r < j
        /\ log[r].k = "resume" /\ log[r].h = log[j].who
        /\ ParkOf(r) >= j

\* entry j resumes a subscriber of an event whose trigger_event call, made
\* after index i, is still in progress when the subscriber suspends again
ResumedByTrigger(i, j) ==
    /\ log[j].a = 1
    /\ \E c \in Idx :
          /\ i < c /\ c < j
          /\ log[c].k = "trig" /\ log[c].lvl = log[j].lvl
          /\ TrigEndOf(c) > ParkOf(j)
          /\ \E k \in 1..Len(SubscribedAfter(log[c].a, c - 1)) :
                /\ SubscribedAfter(log[c].a, c - 1)[k].seq = log[j].b
                /\ SubscribedAfter(log[c].a, c - 1)[k].h = log[j].h

(***************************************************************************)
(* C9, amended.  Between two consecutive suspension points of a task the   *)
(* scheduler takes no step of its own: it resumes nothing from the ready   *)
(* queue, fires no timer and does not change now().  The only steps of     *)
(* other tasks that execute are nested in the task's own: those of the     *)
(* subscribers of an event it triggers, which trigger_event resumes inside *)
(* the call, and those of a coroutine it creates, each up to its next      *)
(* suspension point before the task continues, and of whatever these in    *)
(* turn trigger or create.                                                 *)
(***************************************************************************)
C9_OnlyNestedRunsBetweenSuspensions ==
    \A i \in Idx : (log[i].k = "resume" /\ log[i].a # 3) =>
        /\ ParkOf(i) # 0
        /\ \A j \in Idx : (i < j /\ j < ParkOf(i)) =>
              /\ log[j].k \notin {"pop", "push", "time"}
              /\ log[j].who = log[i].h \/ NestedRun(i, j)
              /\ log[j].k = "resume" =>
                    /\ log[j].h # log[i].h
                    /\ ParkOf(j) # 0 /\ ParkOf(j) < ParkOf(i)
                    /\ log[j].a = 2 \/ ResumedByTrigger(i, j)

\* a task resumed from the ready queue has triggered an event, and a
\* subscriber has run inside that call before the task suspended again
C9_Witness ==
    \E i \in Idx :
        /\ log[i].k = "resume" /\ log[i].a = 0
        /\ \E j \in Idx :
              /\ i < j /\ j < ParkOf(i)
              /\ log[j].k = "resume" /\ log[j].a = 1
              /\ log[j].h # log[i].h

\* the deadline of the Delay in which coroutine h is suspended just before
\* entry i, -1 if it is not suspended in a Delay
WakeBefore(h, i) ==
    LET parks == {j \in Idx : j < i /\ log[j].k = "park" /\ log[j].h = h}
    IN  IF parks # {}
        THEN LET j == CHOOSE x \in parks : \A y \in parks : y <= x
             IN  IF log[j].a = 0 THEN log[j].b ELSE -1
        ELSE IF h <= Len(pre.tasks) THEN pre.tasks[h].wake ELSE -1

\* a task suspended by delay is not resumed before its deadline
NeverResumedEarly ==
    \A i \in Idx : (log[i].k = "resume" /\ log[i].a \in {0, 1}) =>
        (WakeBefore(log[i].h, i) >= 0 => log[i].now >= WakeBefore(log[i].h, i))

\* the coroutines that are suspended in a Delay whose deadline has come
Due(ts, time) ==
    {h \in 1..Len(ts) :
        ts[h].status = "suspended" /\ ts[h].wake >= 0 /\ ts[h].wake <= time}

(***************************************************************************)
(* C10.  A task suspended by delay(D) at virtual time t is never resumed   *)
(* while now() < t + D, and it is resumed no later than the next           *)
(* run_one_step call after its deadline t + D has become <= now(), for any *)
(* number of other timers and ready continuations.                         *)
(* Stated as the claim states it; it fails under Spec.                     *)
(***************************************************************************)
C10_ResumedByNextStepAfterDeadline ==
    /\ NeverResumedEarly
    /\ IsCall({"run_one_step"}) =>
          \A h \in Due(pre.tasks, pre.now) :
              \E i \in Idx : log[i].k = "resume" /\ log[i].h = h

(***************************************************************************)
(* C10, amended.  A task suspended by delay(D) at virtual time t is never  *)
(* resumed while now() < t + D.  When a run_one_step call returns, every   *)
(* task whose deadline is <= now() has its continuation in the ready       *)
(* queue; a run_one_step call made with a non-empty ready queue resumes    *)
(* the continuation at the front of the queue and no other, and leaves     *)
(* now() and the rest of the queue as they were.  So the task is resumed   *)
(* after as many further run_one_step calls as its position in the ready   *)
(* queue, at now() = t + D: by the next call only if it is at the front.   *)
(***************************************************************************)
C10_ResumedInQueueOrderAfterDeadline ==
    /\ NeverResumedEarly
    /\ IsCall({"run_one_step"}) =>
          /\ \A h \in Due(tasks, now) : \E k \in 1..Len(ready) : ready[k] = h
          /\ pre.ready # <<>> =>
                /\ now = pre.now
                /\ ready = Tail(pre.ready)
                /\ \A i \in Idx : (log[i].k = "resume" /\ log[i].a = 0) =>
                      log[i].h = Head(pre.ready)
                /\ \A h \in Due(pre.tasks, pre.now) :
                      \/ h = Head(pre.ready)
                      \/ /\ h \in Due(tasks, now)
                         /\ tasks[h].wake = pre.tasks[h].wake
                         /\ \A i \in Idx : log[i].k = "resume" => log[i].h # h

\* two tasks were due and waiting in the ready queue; run_one_step has
\* resumed the first, and the second is still waiting with its deadline past
C10_Witness ==
    /\ IsCall({"run_one_step"})
    /\ Len(pre.ready) >= 2
    /\ pre.ready[1] \in Due(pre.tasks, pre.now)
    /\ pre.ready[2] \in Due(pre.tasks, pre.now)
    /\ pre.ready[1] # pre.ready[2]
    /\ \E i \in Idx : log[i].k = "resume" /\ log[i].h = pre.ready[1]
    /\ pre.ready[2] \in Due(tasks, now)
    /\ ready[1] = pre.ready[2]

(***************************************************************************)
(* C11.  Scoped scheduler access: for any sequence of Scheduler            *)
(* constructions and destructions, a delay or wait_for_event awaited by a  *)
(* task that was spawned under scheduler S registers its continuation with *)
(* S while S is alive, never with another scheduler and never by resuming  *)
(* at once, and the binding of the wait primitives to S is released        *)
(* exactly when S is destroyed.                                            *)
(* Stated as the claim states it, for S the first scheduler; it fails      *)
(* under SpecScoped.                                                       *)
(***************************************************************************)
C11_AwaitsRegisterWithOwnScheduler ==
    /\ \A i \in Idx :
          (log[i].k \in {"park", "resume"} /\ log[i].a = 3
              /\ tasks[log[i].h].under = "this")
          => "this" \notin alive
    /\ active = "this" <=> "this" \in alive

\* a task created under the first scheduler and resumed by it has
\* registered its next delay with the second scheduler
C11_RegisteredWithOther ==
    /\ IsCall({"run_one_step", "run_until"})
    /\ \E i, j \in Idx :
          /\ i < j
          /\ log[i].k = "resume" /\ log[i].a = 0
          /\ log[j].k = "park" /\ log[j].a = 3 /\ log[j].h = log[i].h
          /\ tasks[log[i].h].under = "this"

\* a task created under the first scheduler, which is alive, has gone
\* through a delay without suspending
C11_ResumedAtOnce ==
    /\ "this" \in alive
    /\ \E i \in Idx :
          /\ log[i].k = "resume" /\ log[i].a = 3
          /\ tasks[log[i].h].under = "this"

C12_WitnessResumeDone ==
    /\ IsCall({"task_resume"})
    /\ pre.tasks[op.a].status = "done"
    /\ pre.tasks[op.a].owner = "held"

(***************************************************************************)
(* C13.  After Task::detach() the former owner can no longer affect the    *)
(* computation: resume() on the detached Task does nothing, and destroying *)
(* the Task object neither destroys the computation nor stops the run; the *)
(* detached computation is still resumed by the scheduler whenever its     *)
(* delay or event resolves.                                                *)
(***************************************************************************)
SchedulerUnchanged ==
    /\ now = pre.now /\ ready = pre.ready /\ timers = pre.timers
    /\ handlers = pre.handlers /\ fired = pre.fired

C13_DetachedTaskOutOfOwnersReach ==
    /\ IsCall({"detach"}) =>
          /\ tasks[op.a].owner = "detached"
          /\ tasks = [pre.tasks EXCEPT ![op.a].owner = "detached"]
          /\ SchedulerUnchanged
    /\ (IsCall({"task_resume"}) /\ pre.tasks[op.a].owner = "detached") =>
          /\ log = <<>>
          /\ tasks = pre.tasks
          /\ SchedulerUnchanged
    /\ (IsCall({"drop"}) /\ pre.tasks[op.a].owner = "detached") =>
          /\ log = <<>>
          /\ tasks = [pre.tasks EXCEPT ![op.a].owner = "gone"]
          /\ SchedulerUnchanged
    \* a suspended coroutine whose Task is detached or gone is registered
    \* with the scheduler, and the scheduler resumes what it takes out
    /\ \A h \in 1..Len(tasks) :
          (tasks[h].owner # "held" /\ tasks[h].status = "suspended") =>
              \/ \E k \in 1..Len(timers) : timers[k].h = h
              \/ \E k \in 1..Len(handlers) : handlers[k].h = h
              \/ \E k \in 1..Len(ready) : ready[k] = h
    /\ \A i \in Idx :
          ((log[i].k = "pop" \/ log[i].k = "handler") /\ pre.tasks[log[i].h].owner # "held") =>
              \/ log[i].k = "pop" /\ log[i].a = 0 /\ tasks[log[i].h].status = "done"
              \/ /\ i + 1 \in Idx
                 /\ log[i + 1].k = "resume" /\ log[i + 1].h = log[i].h
    /\ ~ub

\* the scheduler has resumed, from its ready queue or from an event handler,
\* a coroutine whose detached Task object is destroyed
C13_Witness ==
    /\ IsCall({"run_one_step", "run_until", "trigger_event"})
    /\ \E i \in Idx :
          /\ log[i].k = "resume" /\ log[i].a \in {0, 1}
          /\ pre.tasks[log[i].h].owner = "gone"
          /\ pre.tasks[log[i].h].status = "suspended"

(***************************************************************************)
(* C14.  Dropping a non-detached task that is suspended in wait_for_event  *)
(* between loop iterations unsubscribes it: after the drop the             *)
(* subscription map holds no entry for that task, and a later trigger of   *)
(* the event does not attempt to resume it.                                *)
(* Stated as the claim states it; it fails under SpecDrop.                 *)
(***************************************************************************)
C14_DropUnsubscribes ==
    /\ \A h \in 1..Len(tasks) : tasks[h].status = "destroyed" =>
          \A k \in 1..Len(handlers) : handlers[k].h # h
    /\ \A i \in Idx : log[i].k = "handler" => pre.tasks[log[i].h].status # "destroyed"

\* a trigger has called the handler of a coroutine that was destroyed
C14_HandlerOfDestroyedCalled ==
    /\ IsCall({"trigger_event"})
    /\ \E i \in Idx : log[i].k = "handler" /\ pre.tasks[log[i].h].status = "destroyed"
    /\ ub

(***************************************************************************)
(* Event loops: a coroutine whose body is                                   *)
(*     while (true) { auto v = co_await wait_for_event<T>(id); ... }        *)
(* and which suspends nowhere else.                                         *)
(***************************************************************************)
AwaitsOnly(sc, id) ==
    /\ Scripts[sc].loop
    /\ Scripts[sc].code[1] = I_wait(id)
    /\ \A k \in 1..Len(Scripts[sc].code) :
          /\ Scripts[sc].code[k].op # "delay"
          /\ Scripts[sc].code[k].op = "wait" => Scripts[sc].code[k].n = id

\* the event loops on id that were started before the current call
EventLoops(id) == {h \in 1..Len(pre.tasks) : AwaitsOnly(pre.tasks[h].script, id)}

\* the calls of h's handler made by the trigger_event call entered at index i
ReceivedFrom(h, i) ==
    {j \in Idx : /\ i < j /\ j < TrigEndOf(i)
                 /\ log[j].k = "handler" /\ log[j].h = h
                 /\ log[j].lvl = log[i].lvl}

\* the trigger entered at index i is received by h: once, with the trigger's
\* payload, and h is resumed by the handler at the trigger's virtual time
ReceivedOnce(h, i) ==
    /\ Cardinality(ReceivedFrom(h, i)) = 1
    /\ \A j \in ReceivedFrom(h, i) :
          /\ log[j].b = Delivered(log[i].b)
          /\ log[j].now = log[i].now
          /\ j + 1 \in Idx
          /\ log[j + 1].k = "resume" /\ log[j + 1].h = h /\ log[j + 1].a = 1
          /\ log[j + 1].now = log[i].now

\* the trigger entered at index i is issued from inside a trigger of the
\* same id that had h subscribed, before h, resumed by that trigger, has
\* awaited the event again
InsideDeliveryTo(h, i) ==
    \E o \in Idx :
        /\ o < i /\ log[o].k = "trig" /\ log[o].a = log[i].a
        /\ TrigEndOf(o) > i
        /\ \E j \in ReceivedFrom(h, o) : ParkOf(j + 1) = 0 \/ ParkOf(j + 1) > i

(***************************************************************************)
(* C15.  As the claim states it: an event loop on id receives every        *)
(* trigger_event(id, data) issued after it started, exactly once each and  *)
(* in trigger order, with the payload of that trigger, and is resumed      *)
(* inside the trigger call at the trigger's virtual time.                  *)
(* It fails under Spec: a trigger issued by a coroutine that a trigger of  *)
(* the same id has resumed reaches no event loop that this outer trigger   *)
(* has taken out of the map and not yet resumed.                           *)
(***************************************************************************)
C15_EveryTriggerReceivedOnce ==
    \A id \in EventIds : \A h \in EventLoops(id) : \A i \in Idx :
        (log[i].k = "trig" /\ log[i].a = id /\ log[i].b # NoData) => ReceivedOnce(h, i)

(***************************************************************************)
(* C15, amended.  An event loop on id receives every trigger_event(id,     *)
(* data) issued after it started exactly once, in trigger order, with the  *)
(* payload of that trigger, resumed inside the trigger call at the         *)
(* trigger's virtual time, except a trigger issued from inside another     *)
(* trigger_event of the same id before the loop, resumed by that outer     *)
(* trigger, has awaited the event again: such a trigger is not delivered   *)
(* to the loop at all.                                                     *)
(***************************************************************************)
C15_EveryOuterTriggerReceivedOnce ==
    \A id \in EventIds : \A h \in EventLoops(id) :
        /\ \A i \in Idx : (log[i].k = "trig" /\ log[i].a = id /\ log[i].b # NoData) =>
              IF InsideDeliveryTo(h, i)
              THEN ReceivedFrom(h, i) = {}
              ELSE ReceivedOnce(h, i)
        \* in trigger order: of two triggers, the one issued first is received first
        /\ \A i, k \in Idx :
              (i < k /\ log[i].k = "trig" /\ log[k].k = "trig"
                     /\ log[i].a = id /\ log[k].a = id) =>
                  \A j \in ReceivedFrom(h, i) : \A m \in ReceivedFrom(h, k) : j < m
        \* nothing but a trigger of id resumes the loop
        /\ \A j \in Idx : (log[j].k = "resume" /\ log[j].h = h) =>
              /\ log[j].a = 1
              /\ \E i \in Idx : log[i].k = "trig" /\ log[i].a = id /\ j - 1 \in ReceivedFrom(h, i)

\* an event loop has received two triggers of its event in one call, the
\* second issued by a coroutine that the first had resumed
C15_Witness ==
    \E id \in EventIds : \E h \in EventLoops(id) : \E i \in Idx : \E k \in Idx :
        /\ i < k /\ k < TrigEndOf(i)
        /\ log[i].k = "trig" /\ log[k].k = "trig"
        /\ log[i].a = id /\ log[k].a = id
        /\ log[i].b # NoData /\ log[k].b # NoData /\ log[i].b # log[k].b
        /\ ReceivedOnce(h, i) /\ ReceivedOnce(h, k)

\* an event loop was not subscribed when a nested trigger of its event was
\* issued, and that trigger has not reached it
C15_WitnessMissed ==
    \E id \in EventIds : \E h \in EventLoops(id) : \E i \in Idx :
        /\ log[i].k = "trig" /\ log[i].a = id /\ log[i].b # NoData
        /\ InsideDeliveryTo(h, i)
        /\ pre.tasks[h].script = 2
        /\ ReceivedFrom(h, i) = {}

(***************************************************************************)
(* The owner of a Registry.                                                *)
(***************************************************************************)
\* a call of a member of the registry by its owner
RegistryCall(r, name, a, b, result) ==
    /\ components' = r.components
    /\ last_id' = r.last_id
    /\ preg' = [components |-> components, last_id |-> last_id]
    /\ ret' = result
    /\ op' = [name |-> name, a |-> a, b |-> b]
    /\ UNCHANGED <<now, ready, timers, handlers, active, alive, otherq, tasks, tseq, sseq,
                   fired, ub, openings, running, pre, log>>
    /\ UNCHANGED freqvars

Create ==
    /\ last_id < MaxEntities
    /\ RegistryCall(Registry_create(Cur), "create", 0, 0, last_id + 1)

Emplace ==
    \E e \in 1..MaxEntities : \E c \in DOMAIN ComponentTable :
        RegistryCall(Registry_emplace(Cur, e, c), "emplace", e, c, c)

Get ==
    \E e \in 1..MaxEntities : \E type \in ComponentTypes :
        RegistryCall(Cur, "get", e, hash_code(type), Registry_get(components, type, e))

NextRegistry == Create \/ Emplace \/ Get

SpecRegistry == Init /\ [][NextRegistry]_vars

(***************************************************************************)
(* The protection part of main(): the registry is filled, the four         *)
(* coroutines are started, the scheduler is run.                           *)
(***************************************************************************)
\* cps_coro::Scheduler::duration simulation_duration = std::chrono::milliseconds(70000);
simulation_duration == 70000

\* end times of run_until: the instants the protection scenarios name, and
\* the end of the simulation
EndTimes == {6000, 6201, 6301, 13000, 13301, 13401, simulation_duration}

BoundedProt(r) ==
    /\ r.now <= simulation_duration
    /\ Len(r.tasks) <= MaxProtTasks
    /\ r.sseq <= MaxProtSubs
    /\ r.tseq <= MaxProtTimers

\* registry.create(), before the coroutines are started
SetupCreate == tasks = <<>> /\ Create

\* registry.emplace<Comp>(e, ...) on a created entity, before the coroutines are started
SetupEmplace ==
    /\ tasks = <<>>
    /\ \E e \in 1..last_id : \E c \in DOMAIN ComponentTable :
          RegistryCall(Registry_emplace(Cur, e, c), "emplace", e, c, c)

\* protection_system.run(), faultInjectorTask_prot(protection_system, line1_prot,
\* transformer1_prot, ...), circuitBreakerAgentTask_prot(line1_prot, ...),
\* circuitBreakerAgentTask_prot(transformer1_prot, ...), each detached
StartTasks(s) ==
    LET s1 == NewTaskWith(s, ScriptOf(ProtectionSystem_run_Body), <<>>)
        s2 == NewTaskWith(s1, ScriptOf(faultInjectorTask_prot_Body), <<1, 2>>)
        s3 == NewTaskWith(s2, ScriptOf(circuitBreakerAgentTask_prot_Body), <<1>>)
    IN  NewTaskWith(s3, ScriptOf(circuitBreakerAgentTask_prot_Body), <<2>>)

Start ==
    /\ tasks = <<>>
    /\ last_id >= 2
    /\ Commit(StartTasks(Cur), "start", 0, 0)

\* protection_system.inject_fault(info) by the owner
InjectFault ==
    \E f \in DOMAIN FaultTable :
        /\ tasks # <<>>
        /\ BoundedProt(trigger_event(Cur, FAULT_INFO_EVENT_PROT, f))
        /\ Commit(trigger_event(Cur, FAULT_INFO_EVENT_PROT, f), "inject_fault", f, 0)

ProtRunOneStep ==
    /\ tasks # <<>>
    /\ BoundedProt(run_one_step(Cur))
    /\ Commit(run_one_step(Cur), "run_one_step", 0, 0)

ProtRunUntil ==
    \E end_time \in EndTimes :
        /\ tasks # <<>>
        /\ BoundedProt(run_until(Cur, end_time))
        /\ Commit(run_until(Cur, end_time), "run_until", end_time, 0)

NextProtection ==
    SetupCreate \/ SetupEmplace \/ Start \/ InjectFault \/ ProtRunOneStep \/ ProtRunUntil

SpecProtection == Init /\ [][NextProtection]_vars

(***************************************************************************)
(* C16.  The registry holds at most one component per (component type,     *)
(* entity): emplace<Comp>(e, ...) replaces the component of that pair, a   *)
(* following get<Comp>(e) returns the new value, and every other pair is   *)
(* unchanged; get on a pair never emplaced returns absent and does not     *)
(* change the registry.                                                    *)
(***************************************************************************)
Pairs == ComponentTypes \X (1..MaxEntities)

C16_EmplaceReplacesGetFinds ==
    /\ IsCall({"emplace"}) =>
          LET type == ComponentTable[op.b].kind
          IN  /\ Registry_get(components, type, op.a) = op.b
              /\ \A pr \in Pairs : pr # <<type, op.a>> =>
                    Registry_get(components, pr[1], pr[2])
                        = Registry_get(preg.components, pr[1], pr[2])
              /\ last_id = preg.last_id
    /\ IsCall({"get"}) =>
          /\ components = preg.components
          /\ last_id = preg.last_id
          /\ \E type \in ComponentTypes :
                /\ hash_code(type) = op.b
                /\ ret = Registry_get(preg.components, type, op.a)
    \* a pair holds a component of its own class, or none
    /\ \A pr \in Pairs :
          LET c == Registry_get(components, pr[1], pr[2])
          IN  c # 0 => (c \in DOMAIN ComponentTable /\ ComponentTable[c].kind = pr[1])

\* emplace has replaced the component of a pair while the entity and the
\* class each have another component
C16_Witness ==
    /\ IsCall({"emplace"})
    /\ Registry_get(preg.components, ComponentTable[op.b].kind, op.a) \notin {0, op.b}
    /\ Registry_get(components, ComponentTable[op.b].kind, op.a) = op.b
    /\ \E pr \in Pairs : pr[1] # ComponentTable[op.b].kind /\ pr[2] = op.a
                         /\ Registry_get(components, pr[1], pr[2]) # 0
    /\ \E pr \in Pairs : pr[1] = ComponentTable[op.b].kind /\ pr[2] # op.a
                         /\ Registry_get(components, pr[1], pr[2]) # 0

\* get has found no component for a pair while the registry holds others
C16_WitnessAbsent ==
    /\ IsCall({"get"})
    /\ ret = 0
    /\ components # <<>>
    /\ op.b \in DOMAIN components

(***************************************************************************)
(* Protection: what the log of a call says.                                *)
(***************************************************************************)
\* the pairs of a concrete protective class and an entity
ProtectivePairs == {"OverCurrentProtection", "DistanceProtection"} \X (1..MaxEntities)

\* the registry as main() fills it: line = entity 1, transformer = entity 2
MainRegistry ==
    /\ last_id = 2
    /\ Registry_get(components, "OverCurrentProtection", 1) = 1
    /\ Registry_get(components, "DistanceProtection", 1) = 2
    /\ Registry_get(components, "OverCurrentProtection", 2) = 3
    /\ Registry_get(components, "DistanceProtection", 2) = 0

\* index i is a FAULT_INFO_EVENT_PROT trigger that reaches the engine
FaultAt(i) ==
    /\ log[i].k = "trig" /\ log[i].a = FAULT_INFO_EVENT_PROT
    /\ i + 1 \in Idx
    /\ log[i + 1].k = "handler"
    /\ Scripts[tasks[log[i + 1].h].script] = ProtectionSystem_run_Body

\* the fault the engine works with
FaultOf(i) == calculate_impedance_if_needed(FaultTable[log[i].b])

\* the calls of the function given to for_each while the engine handles fault i
VisitsOf(i, e, c) ==
    {j \in Idx : /\ i + 2 < j
                 /\ ParkOf(i + 2) # 0 => j < ParkOf(i + 2)
                 /\ log[j].k = "visit" /\ log[j].a = e /\ log[j].b = c}

\* event id with payload e is triggered at virtual time tm during the call
Emitted(id, e, tm) ==
    \E j \in Idx : log[j].k = "trig" /\ log[j].a = id /\ log[j].b = e /\ log[j].now = tm

(***************************************************************************)
(* C17.  On every fault the engine's iteration visits every protective     *)
(* component of every concrete kind (overcurrent, distance) exactly once,  *)
(* with the entity it belongs to.                                          *)
(* Stated as the claim states it; it fails under SpecProtection.           *)
(***************************************************************************)
C17_EveryProtectiveComponentVisitedOnce ==
    \A i \in Idx : FaultAt(i) =>
        \A pr \in ProtectivePairs :
            LET c == Registry_get(components, pr[1], pr[2])
            IN  c # 0 => Cardinality(VisitsOf(i, pr[2], c)) = 1

\* the engine has handled a fault while the registry holds main()'s components
C17_FaultHandledWithMainRegistry ==
    /\ MainRegistry
    /\ \E i \in Idx : FaultAt(i) /\ ParkOf(i + 2) # 0

(***************************************************************************)
(* C18.  For every fault and every protective component whose pick_up is   *)
(* true for it, EntityTrip(entity of the component) is emitted exactly     *)
(* trip_delay_ms after the fault; components that do not pick up cause no  *)
(* EntityTrip.                                                             *)
(* Stated as the claim states it, for a fault issued during a run_until    *)
(* that goes on beyond the trip time; it fails under SpecProtection.       *)
(***************************************************************************)
C18_PickedUpComponentTripsAfterDelay ==
    IsCall({"run_until"}) =>
        \A i \in Idx : FaultAt(i) =>
            \A pr \in ProtectivePairs :
                LET c == Registry_get(components, pr[1], pr[2])
                    tm == log[i].now + trip_delay_ms(ComponentTable[c], FaultOf(i))
                IN  (c # 0 /\ pick_up(ComponentTable[c], FaultOf(i), pr[2]) /\ tm < op.a)
                        => Emitted(ENTITY_TRIP_EVENT_PROT, pr[2], tm)

(***************************************************************************)
(* C19.  Scenario 'selective overcurrent': with an overcurrent protection  *)
(* (5.0 kA, 200 ms) and a distance protection (zones (5,0) (15,300)        *)
(* (25,700)) on the line, a fault injected on the line at t = 6000 with    *)
(* 15 kA and 11.73 Ohm produces EntityTrip(line) at t = 6200 and           *)
(* BreakerOpened(line) at t = 6300.                                        *)
(* Stated as the claim states it; it fails under SpecProtection.           *)
(***************************************************************************)
C19_LineFaultTripsAt6200OpensAt6300 ==
    ( /\ MainRegistry
      /\ IsCall({"run_until"})
      /\ op.a > 6300
      /\ \E i \in Idx : FaultAt(i) /\ log[i].b = 1 /\ log[i].now = 6000 )
    => ( /\ Emitted(ENTITY_TRIP_EVENT_PROT, 1, 6200)
         /\ Emitted(BREAKER_OPENED_EVENT, 1, 6300) )

(***************************************************************************)
(* C20.  Scenario 'transformer overcurrent': with an overcurrent           *)
(* protection (2.5 kA, 300 ms) on the transformer, a fault injected on the *)
(* transformer at t = 13000 with 3.0 kA at 220 kV (impedance derived)      *)
(* produces EntityTrip(transformer) at t = 13300 and                       *)
(* BreakerOpened(transformer) at t = 13400, and the line's protections do  *)
(* not pick up.                                                            *)
(* Stated as the claim states it; it fails under SpecProtection.           *)
(***************************************************************************)
C20_TransformerFaultTripsAt13300OpensAt13400 ==
    ( /\ MainRegistry
      /\ IsCall({"run_until"})
      /\ op.a > 13400
      /\ \E i \in Idx : FaultAt(i) /\ log[i].b = 2 /\ log[i].now = 13000 )
    => ( /\ Emitted(ENTITY_TRIP_EVENT_PROT, 2, 13300)
         /\ Emitted(BREAKER_OPENED_EVENT, 2, 13400)
         /\ ~pick_up(ComponentTable[1], FaultOf(CHOOSE i \in Idx : FaultAt(i) /\ log[i].b = 2), 1)
         /\ ~pick_up(ComponentTable[2], FaultOf(CHOOSE i \in Idx : FaultAt(i) /\ log[i].b = 2), 1)
         /\ ~Emitted(ENTITY_TRIP_EVENT_PROT, 1, 13300) )

(***************************************************************************)
(* Pending trips.  trip_later(e, d, ...) started at virtual time t is a    *)
(* frame with arguments <<e, d>> suspended in a Delay that ends at t + d.  *)
(***************************************************************************)
PendingTrips(ts, e, d, at) ==
    {h \in 1..Len(ts) : /\ Scripts[ts[h].script] = trip_later_Body
                        /\ ts[h].args = <<e, d>>
                        /\ ts[h].status = "suspended"
                        /\ ts[h].wake = at}

\* faultInjectorTask_prot has issued its first fault, at t = 6000, and is in
\* its second delay, which ends at 6000 + 7000
Fault1IssuedAt6000(ts) ==
    \E h \in 1..Len(ts) : /\ Scripts[ts[h].script] = faultInjectorTask_prot_Body
                          /\ ts[h].status = "suspended"
                          /\ ts[h].wake = 13000

\* the components of the registry that pick up for the fault numbered f,
\* each with its entity and its trip delay
PickingUp(f) ==
    {<<pr[2], trip_delay_ms(ComponentTable[Registry_get(components, pr[1], pr[2])],
                            calculate_impedance_if_needed(FaultTable[f]))>> :
        pr \in {q \in ProtectivePairs :
                  /\ Registry_get(components, q[1], q[2]) # 0
                  /\ pick_up(ComponentTable[Registry_get(components, q[1], q[2])],
                             calculate_impedance_if_needed(FaultTable[f]), q[2])}}

(***************************************************************************)
(* C21.  Pending trip sub-tasks are never cancelled: when a second fault   *)
(* is injected before the trips scheduled for a first fault have fired,    *)
(* every trip scheduled for either fault still emits its EntityTrip at its *)
(* own deadline (injection time of its fault plus its delay).              *)
(* Stated for main()'s registry, the injector's line fault of t = 6000 as  *)
(* the first fault and a fault injected by the owner before t = 6200 as    *)
(* the second: after the second injection the trips of both faults are     *)
(* pending with their own deadlines, and a run beyond t = 6300 emits the   *)
(* first fault's EntityTrips at 6200 and at 6300.                          *)
(* It fails under SpecProtection.                                          *)
(***************************************************************************)
C21_TripsOfBothFaultsStayPending ==
    /\ ( /\ IsCall({"inject_fault"})
         /\ MainRegistry
         /\ Fault1IssuedAt6000(tasks)
         /\ now < 6200 )
       => /\ \A ed \in PickingUp(1) : PendingTrips(tasks, ed[1], ed[2], 6000 + ed[2]) # {}
          /\ \A ed \in PickingUp(op.a) :
                ed[2] > 0 => PendingTrips(tasks, ed[1], ed[2], now + ed[2]) # {}
          /\ \A ed \in PickingUp(1) \cap PickingUp(op.a) :
                (now = 6000 /\ ed[2] > 0) =>
                    Cardinality(PendingTrips(tasks, ed[1], ed[2], 6000 + ed[2])) >= 2
    /\ ( /\ IsCall({"run_until"})
         /\ MainRegistry
         /\ Fault1IssuedAt6000(pre.tasks)
         /\ pre.now < 6200
         /\ op.a > 6300 )
       => \A ed \in PickingUp(1) : Emitted(ENTITY_TRIP_EVENT_PROT, ed[1], 6000 + ed[2])

\* the owner has injected a second fault at t = 6000, after the injector's
\* line fault and before any trip of it can have fired
C21_SecondFaultBeforeFirstTrips ==
    /\ IsCall({"inject_fault"})
    /\ MainRegistry
    /\ Fault1IssuedAt6000(tasks)
    /\ now = 6000
    /\ PickingUp(1) = {<<1, 200>>, <<1, 300>>, <<2, 300>>}

(***************************************************************************)
(* The breaker agents alone: main() starts one for the line (entity 1) and *)
(* one for the transformer (entity 2); EntityTrip events are triggered on  *)
(* the scheduler, as trip_later does, with the id of an entity that has an *)
(* agent or of one that has none.                                          *)
(***************************************************************************)
BreakerEndTimes == {tm \in 1..MaxBreakerTime : tm % 50 = 0}

BoundedBreaker(r) ==
    /\ r.now <= MaxBreakerTime
    /\ r.sseq <= MaxBreakerSubs

\* circuitBreakerAgentTask_prot(line1_prot, ...), circuitBreakerAgentTask_prot(transformer1_prot, ...)
StartBreakerAgents(s) ==
    LET s1 == NewTaskWith(s, ScriptOf(circuitBreakerAgentTask_prot_Body), <<1>>)
    IN  NewTaskWith(s1, ScriptOf(circuitBreakerAgentTask_prot_Body), <<2>>)

StartAgents ==
    /\ tasks = <<>>
    /\ Commit(StartBreakerAgents(Cur), "start", 0, 0)

\* scheduler.trigger_event(ENTITY_TRIP_EVENT_PROT, protected_entity_id)
TriggerTrip ==
    \E e \in 1..(MaxEntities + 1) :
        /\ tasks # <<>>
        /\ BoundedBreaker(trigger_event(Cur, ENTITY_TRIP_EVENT_PROT, e))
        /\ Commit(trigger_event(Cur, ENTITY_TRIP_EVENT_PROT, e), "trigger_trip", e, 0)

BreakerRunOneStep ==
    /\ tasks # <<>>
    /\ BoundedBreaker(run_one_step(Cur))
    /\ Commit(run_one_step(Cur), "run_one_step", 0, 0)

BreakerRunUntil ==
    \E end_time \in BreakerEndTimes :
        /\ tasks # <<>>
        /\ end_time > now
        /\ BoundedBreaker(run_until(Cur, end_time))
        /\ Commit(run_until(Cur, end_time), "run_until", end_time, 0)

NextBreaker == StartAgents \/ TriggerTrip \/ BreakerRunOneStep \/ BreakerRunUntil

SpecBreaker == Init /\ [][NextBreaker]_vars

\* the breaker agents
BreakerAgents ==
    {h \in 1..Len(tasks) : Scripts[tasks[h].script] = circuitBreakerAgentTask_prot_Body}

\* the trigger_event call that calls the handler at index m
TriggerOf(m) ==
    LET before == {i \in Idx : i < m /\ log[i].k = "trig" /\ log[i].lvl = log[m].lvl}
    IN  CHOOSE i \in before : \A o \in before : o <= i

\* agent h triggers nothing between the indexes m and p
SilentBetween(h, m, p) ==
    \A j \in Idx : (m < j /\ j < p) => ~(log[j].k = "trig" /\ log[j].who = h)

(***************************************************************************)
(* C22.  A breaker agent for entity e emits BreakerOpened(e) only exactly  *)
(* 100 ms of virtual time after it received an EntityTrip carrying e; an   *)
(* EntityTrip carrying any other id never makes it emit anything, and in   *)
(* that case the agent is subscribed to EntityTrip again before the        *)
(* trigger that delivered the event returns.                               *)
(***************************************************************************)
C22_BreakerOpens100msAfterOwnTrip ==
    /\ ~ub
    \* its own id: the agent goes into a Delay that ends 100 ms later
    /\ \A m \in Idx :
          ( /\ log[m].k = "handler" /\ log[m].h \in BreakerAgents
            /\ log[m].b = tasks[log[m].h].args[1] ) =>
              LET h == log[m].h
                  p == ParkOf(m + 1)
              IN  /\ p # 0
                  /\ log[p].a = 0 /\ log[p].b = log[m].now + 100
                  /\ SilentBetween(h, m, p)
    \* another id: the agent is subscribed again inside the trigger, silently
    /\ \A m \in Idx :
          ( /\ log[m].k = "handler" /\ log[m].h \in BreakerAgents
            /\ log[m].b # tasks[log[m].h].args[1] ) =>
              LET h == log[m].h
                  p == ParkOf(m + 1)
              IN  /\ p # 0
                  /\ log[p].a = 1 /\ log[p].b = ENTITY_TRIP_EVENT_PROT
                  /\ p < TrigEndOf(TriggerOf(m))
                  /\ SilentBetween(h, m, p)
                  /\ \A j \in Idx : (m < j /\ j < p) => log[j].k # "timer"
    \* BreakerOpened comes from an agent at the end of that Delay, with its id
    /\ \A j \in Idx : (log[j].k = "trig" /\ log[j].a = BREAKER_OPENED_EVENT) =>
          LET h == log[j].who
          IN  /\ h \in BreakerAgents
              /\ log[j].b = tasks[h].args[1]
              /\ LET parks == {i \in Idx : i < j /\ log[i].k = "park" /\ log[i].h = h}
                 IN  IF parks = {}
                     THEN /\ pre.tasks[h].wake = log[j].now
                          /\ pre.tasks[h].rx = log[j].b
                     ELSE LET i == CHOOSE x \in parks : \A y \in parks : y <= x
                          IN  log[i].a = 0 /\ log[i].b = log[j].now
    \* an agent in its Delay has received its own id
    /\ \A h \in BreakerAgents :
          tasks[h].wake # -1 => tasks[h].rx = tasks[h].args[1]

\* an agent has emitted BreakerOpened for its entity at the end of the 100 ms
\* that began when it received the EntityTrip in an earlier call
C22_Witness ==
    /\ IsCall({"run_until", "run_one_step"})
    /\ \E j \in Idx :
          /\ log[j].k = "trig" /\ log[j].a = BREAKER_OPENED_EVENT
          /\ pre.tasks[log[j].who].wake = log[j].now
          /\ log[j].now >= 100

\* an agent has received an EntityTrip of another entity
C22_WitnessOtherId ==
    /\ IsCall({"trigger_trip"})
    /\ \E m \in Idx :
          /\ log[m].k = "handler" /\ log[m].h \in BreakerAgents
          /\ log[m].b # tasks[log[m].h].args[1]

(***************************************************************************)
(* C23.  Once a breaker has opened, later trips are only observed: after   *)
(* BreakerOpened(e) has been emitted, every later EntityTrip(e) is         *)
(* received by e's breaker agent and causes no further effect (no second   *)
(* BreakerOpened(e) is emitted in the rest of the run).                    *)
(* Stated as the claim states it; it fails under SpecBreaker.              *)
(***************************************************************************)
OpenedBefore(e) == \E k \in 1..Len(openings) : openings[k][1] = e

C23_OpenedTwice ==
    \E i, j \in 1..Len(openings) : i < j /\ openings[i][1] = openings[j][1]

(***************************************************************************)
(* C24.  Several overcurrent stages (a fast stage and a main stage)        *)
(* emplaced on the same entity coexist: after both emplace calls the       *)
(* registry holds both stages for that entity, and on a fault each of them *)
(* is evaluated and schedules its own trip when it picks up.               *)
(* Stated as the claim states it, for the registry; it fails under         *)
(* SpecRegistry.                                                           *)
(***************************************************************************)
\* the components the registry holds for entity e
HeldFor(comps, e) ==
    {c \in DOMAIN ComponentTable : \E type \in ComponentTypes : Registry_get(comps, type, e) = c}

C24_StagesOfOneEntityCoexist ==
    ( /\ IsCall({"emplace"})
      /\ ComponentTable[op.b].kind = "OverCurrentProtection" )
    => \A c \in HeldFor(preg.components, op.a) :
          ComponentTable[c].kind = "OverCurrentProtection" => c \in HeldFor(components, op.a)

\* a second overcurrent stage has been emplaced on an entity that had one
C24_SecondStageEmplaced ==
    /\ IsCall({"emplace"})
    /\ ComponentTable[op.b].kind = "OverCurrentProtection"
    /\ \E c \in HeldFor(preg.components, op.a) :
          c # op.b /\ ComponentTable[c].kind = "OverCurrentProtection"
    /\ HeldFor(components, op.a) \cap {1, 3} = {op.b}

(***************************************************************************)
(* The frequency-response system (frequency_system.cpp).  The doubles of   *)
(* the source are fixed-point numbers here: power in W, gain in W per mHz, *)
(* frequency in mHz, seconds in hundredths, state of charge in millionths  *)
(* (1.0 is 1000000), so that -5.0 kW is -5000, a deadband of 0.03 Hz is 30 *)
(* and 1.0 s is 100.  The scheduler's clock stays in ms.                   *)
(***************************************************************************)
\* the most FREQUENCY_UPDATE_EVENTs triggered in a run
MaxSamples == 3

FREQUENCY_UPDATE_EVENT == 200

\* 0.01 Hz
FREQUENCY_CHANGE_THRESHOLD_HZ == 10

\* 1.0 s
TIME_THRESHOLD_SECONDS == 100

EV_PILE == "EV_PILE"
ESS_UNIT == "ESS_UNIT"

FrequencyControlConfigComponent(t, base_p, gain, db, max_p, min_p, soc_min, soc_max) ==
    [type |-> t, base_power_kW |-> base_p, gain_kW_per_Hz |-> gain, deadband_Hz |-> db,
     max_output_kW |-> max_p, min_output_kW |-> min_p,
     soc_min_threshold |-> soc_min, soc_max_threshold |-> soc_max]

\* the constructor stores both values as given
PhysicalStateComponent(power, s) == [current_power_kW |-> power, soc |-> s]

FrequencyInfo(t, dev) == [current_sim_time_seconds |-> t, freq_deviation_hz |-> dev]

\* current_sim_time_ms / 1000.0
current_sim_time_s(ms) == ms \div 10

std_max(a, b) == IF a < b THEN b ELSE a
std_min(a, b) == IF b < a THEN b ELSE a
std_abs(a) == IF a < 0 THEN -a ELSE a

\* a / b of two doubles, to the fixed-point grid (towards zero)
Quotient(a, b) == IF a >= 0 THEN a \div b ELSE -((-a) \div b)

\* typical_battery_capacity_kWh and typical_ess_capacity_kWh
typical_capacity_kWh(type) == IF type = EV_PILE THEN 50 ELSE 2000

\* the SOC integration step without its last statement
IntegrateSoc_NoClamp(config, state, dt) ==
    state.soc - Quotient(state.current_power_kW * dt, 360 * typical_capacity_kWh(config.type))

\* the SOC integration step over dt at the power held during the interval:
\* W * 0.01 s / (360 * kWh) is millionths of the capacity
IntegrateSoc(config, state, dt) ==
    LET energy_change == state.current_power_kW * dt
        soc == state.soc - Quotient(energy_change, 360 * typical_capacity_kWh(config.type))
    IN  std_max(0, std_min(1000000, soc))

\* a response that starts at the edge of the deadband
ResponsePower_AtEdge(config, soc, dev) ==
    IF std_abs(dev) >= config.deadband_Hz
    THEN IF dev < 0
         THEN IF config.type = EV_PILE /\ soc < config.soc_min_threshold
              THEN (IF config.base_power_kW < 0 THEN 0 ELSE config.base_power_kW)
              ELSE (-config.gain_kW_per_Hz) * (dev + config.deadband_Hz)
         ELSE config.base_power_kW - config.gain_kW_per_Hz * (dev - config.deadband_Hz)
    ELSE config.base_power_kW

\* new_calculated_power_kW before the limits: the response to the deviation
ResponsePower(config, soc, dev) ==
    IF std_abs(dev) > config.deadband_Hz
    THEN IF dev < 0
         THEN LET effective_df_drop == dev + config.deadband_Hz
              IN  IF config.type = EV_PILE
                  THEN IF soc >= config.soc_min_threshold
                       THEN (-config.gain_kW_per_Hz) * effective_df_drop
                       ELSE IF config.base_power_kW < 0 THEN 0 ELSE config.base_power_kW
                  ELSE (-config.gain_kW_per_Hz) * effective_df_drop
         ELSE LET effective_df_rise == dev - config.deadband_Hz
                  power_change_due_to_freq == (-config.gain_kW_per_Hz) * effective_df_rise
              IN  config.base_power_kW + power_change_due_to_freq
    ELSE config.base_power_kW

\* the limits without the lower one
LimitOutput_MaxOnly(config, p) == std_min(config.max_output_kW, p)

\* std::max(min_output_kW, std::min(max_output_kW, p))
LimitOutput(config, p) == std_max(config.min_output_kW, std_min(config.max_output_kW, p))

\* no guard at all
SocGuard_None(config, soc, p) == p

\* the EV SOC guard: two tests, one after the other
SocGuard(config, soc, p) ==
    IF config.type = EV_PILE
    THEN LET p1 == IF p < 0 /\ soc >= config.soc_max_threshold THEN 0 ELSE p
         IN  IF p1 > 0 /\ soc <= config.soc_min_threshold THEN 0 ELSE p1
    ELSE p

\* whether the body of the loop over managed_entities integrates the SOC
Integrates(last_full, dt) == last_full >= 0 /\ dt > 0

\* one pass of the body of the loop over managed_entities, for a device that
\* has both components
UpdateDevice(config, state, last_full, dt, dev) ==
    LET soc == IF Integrates(last_full, dt) THEN IntegrateSoc(config, state, dt) ELSE state.soc
    IN  PhysicalStateComponent(
            SocGuard(config, soc, LimitOutput(config, ResponsePower(config, soc, dev))), soc)

\* the loop over managed_entities from its i-th element on; r carries
\* phys_states and the sets of devices integrated and updated
RECURSIVE UpdateManaged(_, _, _, _, _, _)
UpdateManaged(r, managed, i, last_full, dt, dev) ==
    IF i > Len(managed) THEN r
    ELSE LET e == managed[i]
         IN  IF e \notin DOMAIN freq_configs \/ e \notin DOMAIN r.phys_states
             THEN UpdateManaged(r, managed, i + 1, last_full, dt, dev)
             ELSE UpdateManaged(
                      [r EXCEPT !.phys_states[e] =
                                    UpdateDevice(freq_configs[e], @, last_full, dt, dev),
                                !.integrated = IF Integrates(last_full, dt) THEN @ \cup {e} ELSE @,
                                !.updated = @ \cup {e}],
                      managed, i + 1, last_full, dt, dev)

\* the locals of a vppFrequencyResponseTask when it first waits
vppFrequencyResponseTask(managed_entities) ==
    [managed_entities |-> managed_entities,
     last_processed_event_time_s |-> -100,
     vpp_instance_last_full_update_time_s |-> -100,
     vpp_instance_last_full_update_freq_dev_hz |-> 0]

\* a controller that discards only strictly older samples
Discards_OlderOnly(c, info) == info.current_sim_time_seconds < c.last_processed_event_time_s

\* the gating with a heartbeat that is due only after more than the threshold
perform_full_update_Late(c, info) ==
    \/ c.vpp_instance_last_full_update_time_s < 0
    \/ std_abs(info.freq_deviation_hz - c.vpp_instance_last_full_update_freq_dev_hz)
           > FREQUENCY_CHANGE_THRESHOLD_HZ
    \/ std_max(0, info.current_sim_time_seconds - c.vpp_instance_last_full_update_time_s)
           > TIME_THRESHOLD_SECONDS

\* if (current_sim_time_seconds <= last_processed_event_time_s) continue;
Discards(c, info) == info.current_sim_time_seconds <= c.last_processed_event_time_s

dt_since_last_full_update(c, info) ==
    IF c.vpp_instance_last_full_update_time_s < 0 THEN 0
    ELSE std_max(0, info.current_sim_time_seconds - c.vpp_instance_last_full_update_time_s)

perform_full_update(c, info) ==
    \/ c.vpp_instance_last_full_update_time_s < 0
    \/ std_abs(info.freq_deviation_hz - c.vpp_instance_last_full_update_freq_dev_hz)
           > FREQUENCY_CHANGE_THRESHOLD_HZ
    \/ dt_since_last_full_update(c, info) >= TIME_THRESHOLD_SECONDS

\* one turn of the loop of controller k, resumed with info; r carries
\* phys_states, vpp and what has been done
vppReceive(r, k, info) ==
    LET c == r.vpp[k]
    IN  IF Discards(c, info) THEN r
        ELSE LET c1 == [c EXCEPT !.last_processed_event_time_s = info.current_sim_time_seconds]
             IN  IF ~perform_full_update(c1, info) THEN [r EXCEPT !.vpp[k] = c1]
                 ELSE LET r1 == UpdateManaged(r, c1.managed_entities, 1,
                                              c1.vpp_instance_last_full_update_time_s,
                                              dt_since_last_full_update(c1, info),
                                              info.freq_deviation_hz)
                      IN  [r1 EXCEPT !.vpp[k] =
                                  [c1 EXCEPT !.vpp_instance_last_full_update_time_s =
                                                 info.current_sim_time_seconds,
                                             !.vpp_instance_last_full_update_freq_dev_hz =
                                                 info.freq_deviation_hz],
                                     !.full = @ \cup {k}]

\* g_scheduler->trigger_event(FREQUENCY_UPDATE_EVENT, info): the controllers
\* wait for nothing else, so each is subscribed, is resumed inside the call
\* in subscription order and subscribes again before the call returns
RECURSIVE ResumeControllers(_, _, _)
ResumeControllers(r, k, info) ==
    IF k > Len(r.vpp) THEN r ELSE ResumeControllers(vppReceive(r, k, info), k + 1, info)

trigger_frequency_update(info) ==
    ResumeControllers([phys_states |-> phys_states, vpp |-> vpp, full |-> {},
                       integrated |-> {}, updated |-> fdone.updated], 1, info)

\* the two loops of the oracle that add up current_power_kW
RECURSIVE SumPower(_, _, _)
SumPower(sts, list, i) ==
    IF i > Len(list) THEN 0
    ELSE (IF list[i] \in DOMAIN sts THEN sts[list[i]].current_power_kW ELSE 0)
         + SumPower(sts, list, i + 1)

total_vpp_power_kw(sts) == SumPower(sts, ev_entities, 1) + SumPower(sts, ess_entities, 1)

(***************************************************************************)
(* The frequency-response system as main() sets it up and runs it.         *)
(***************************************************************************)
\* the configurations main() emplaces for a charging pile and for a storage
\* unit (its gain 1000.0 / (0.03 * 50.0) to the nearest W per mHz), and two
\* it does not: a pile scheduled to discharge and a pile scheduled beyond
\* its limits
DeviceTable == <<
    FrequencyControlConfigComponent(EV_PILE, -5000, 4, 30, 5000, -5000, 100000, 950000),
    FrequencyControlConfigComponent(ESS_UNIT, 0, 667, 30, 1000000, -1000000, 50000, 950000),
    FrequencyControlConfigComponent(EV_PILE, 3000, 4, 30, 5000, -5000, 100000, 950000),
    FrequencyControlConfigComponent(EV_PILE, 7000, 4, 30, 5000, -5000, 100000, 950000) >>

\* states of charge a device starts from or has come to
SocValues == {0, 99990, 100000, 500000, 950000, 1000000}

\* frequency deviations: at the edges of the deadband and beyond them
DevValues == {-200, -35, -30, 30, 200}

\* simulation_step_ms
StepValues == {20, 1000}

\* the two vectors of main(): disjoint as main() fills them, or sharing an
\* entity and naming one that has no components
EntityLists == { [ev |-> <<1>>, ess |-> <<2>>], [ev |-> <<1, 2>>, ess |-> <<2, 3>>] }

FreqCall(name, info) ==
    /\ op' = [name |-> name, a |-> info.current_sim_time_seconds, b |-> info.freq_deviation_hz]
    /\ UNCHANGED <<ready, timers, handlers, active, alive, otherq, tasks, tseq, sseq, fired, ub,
                   components, last_id, preg, ret, openings, running, pre, log>>

\* main(): the entities, their components, the oracle and the two controllers
SetupFrequencySystem ==
    /\ vpp = <<>>
    /\ \E c1 \in DOMAIN DeviceTable, s1 \in SocValues, l \in EntityLists, step \in StepValues :
        /\ freq_configs' = (1 :> DeviceTable[c1]) @@ (2 :> DeviceTable[2])
        /\ phys_states' = (1 :> PhysicalStateComponent(DeviceTable[c1].base_power_kW, s1))
                          @@ (2 :> PhysicalStateComponent(DeviceTable[2].base_power_kW, 700000))
        /\ ev_entities' = l.ev
        /\ ess_entities' = l.ess
        /\ oracle' = [simulation_step_ms |-> step, record |-> <<>>]
        /\ vpp' = << vppFrequencyResponseTask(l.ev), vppFrequencyResponseTask(l.ess) >>
    /\ UNCHANGED <<now, fpre, fdone>>
    /\ FreqCall("setup", FrequencyInfo(0, 0))

\* what a trigger of FREQUENCY_UPDATE_EVENT leaves behind
FreqCommit(r) ==
    /\ phys_states' = r.phys_states
    /\ vpp' = r.vpp
    /\ fpre' = [phys_states |-> phys_states, vpp |-> vpp]
    /\ fdone' = [full |-> r.full, fullbefore |-> fdone.fullbefore \cup fdone.full,
                 integrated |-> r.integrated, updated |-> r.updated,
                 samples |-> fdone.samples + 1,
                 prev |-> [name |-> op.name, a |-> op.a, b |-> op.b, full |-> fdone.full]]
    /\ UNCHANGED <<freq_configs, ev_entities, ess_entities>>

\* one turn of the oracle's loop: the delay ends, the sample is published,
\* the powers are added up and the record is written
OracleStep ==
    /\ vpp # <<>>
    /\ fdone.samples < MaxSamples
    /\ \E dev \in DevValues :
        LET info == FrequencyInfo(current_sim_time_s(now + oracle.simulation_step_ms), dev)
            r == trigger_frequency_update(info)
        IN  /\ now' = now + oracle.simulation_step_ms
            /\ FreqCommit(r)
            /\ oracle' = [oracle EXCEPT !.record =
                   [time |-> info.current_sim_time_seconds, freq_dev_hz |-> dev,
                    total_vpp_power_kw |-> total_vpp_power_kw(r.phys_states)]]
            /\ FreqCall("oracle", info)

\* any other code triggers FREQUENCY_UPDATE_EVENT: with the time of the
\* current step or of the step before, and with the deviation published
\* last or its opposite
TriggerFrequencyUpdate ==
    /\ vpp # <<>>
    /\ fdone.samples < MaxSamples
    /\ \E ms \in {now, now - oracle.simulation_step_ms}, dev \in {op.b, -op.b} :
        LET info == FrequencyInfo(current_sim_time_s(ms), dev)
        IN  /\ ms >= 0
            /\ FreqCommit(trigger_frequency_update(info))
            /\ UNCHANGED <<now, oracle>>
            /\ FreqCall("trigger", info)

NextFrequency == SetupFrequencySystem \/ OracleStep \/ TriggerFrequencyUpdate

SpecFrequency == Init /\ [][NextFrequency]_vars

(***************************************************************************)
(* Helpers of the claims about the frequency-response system.              *)
(***************************************************************************)
\* the last step was a trigger of FREQUENCY_UPDATE_EVENT
IsSample == op.name \in {"oracle", "trigger"}

\* the sample of the last trigger
LastInfo == FrequencyInfo(op.a, op.b)

\* the controllers
Controllers == 1..Len(vpp)

\* the controllers that manage entity e
ManagersOf(e) ==
    {k \in Controllers : \E i \in 1..Len(vpp[k].managed_entities) : vpp[k].managed_entities[i] = e}

\* controller k discarded the sample of the last trigger
Discarded(k) == IsSample /\ LastInfo.current_sim_time_seconds <= fpre.vpp[k].last_processed_event_time_s

(***************************************************************************)
(* C25.  VPP dedupe is idempotent: a controller discards every             *)
(* FrequencyUpdate whose sim_time_seconds is <= the time of the last       *)
(* sample it processed, so delivering the same FrequencyInfo twice (or an  *)
(* older one afterwards) causes exactly one full update, and the discarded *)
(* delivery leaves every device's power and SOC and the controller's       *)
(* last_event/last_full_update state unchanged.                            *)
(* As stated: a sample published by the oracle and then delivered again,   *)
(* or followed by an older one, makes each controller do one full update   *)
(* in all.  It fails when the gating admits no full update for the         *)
(* oracle's sample: then the two deliveries cause none.                    *)
(***************************************************************************)
C25_SameSampleTwiceOneFullUpdate ==
    ( /\ op.name = "trigger"
      /\ fdone.prev.name = "oracle"
      /\ op.a <= fdone.prev.a )
    => \A k \in Controllers :
          /\ (k \in fdone.prev.full) # (k \in fdone.full)
          /\ vpp[k] = fpre.vpp[k]

\* C25, amended: a controller discards every sample whose time is <= the
\* time of the last sample it processed: it does no full update on it and
\* keeps its three locals, and a device none of whose controllers processed
\* the sample keeps its power and SOC; so the same sample delivered twice,
\* or an older one afterwards, causes the updates of the first delivery
\* only, which is at most one full update.
C25_DiscardedSampleChangesNothing ==
    /\ \A k \in Controllers :
          Discarded(k) => k \notin fdone.full /\ vpp[k] = fpre.vpp[k]
    /\ \A e \in DOMAIN phys_states :
          (IsSample /\ \A k \in ManagersOf(e) : Discarded(k))
          => phys_states[e] = fpre.phys_states[e]
    /\ ( op.name = "trigger" /\ fdone.prev.name = "oracle" /\ op.a <= fdone.prev.a )
       => \A k \in Controllers : k \notin fdone.full

\* the oracle's sample made both controllers do a full update, and the same
\* time delivered again with another deviation was discarded by both
C25_Witness ==
    /\ op.name = "trigger"
    /\ fdone.prev.name = "oracle"
    /\ op.a = fdone.prev.a
    /\ std_abs(op.b - fdone.prev.b) > FREQUENCY_CHANGE_THRESHOLD_HZ
    /\ fdone.prev.full = {1, 2}
    /\ \A k \in Controllers : Discarded(k)
    /\ phys_states = fpre.phys_states

\* the oracle's sample was accepted without a full update and delivered again
C25_NoFullUpdateAtAll ==
    /\ op.name = "trigger"
    /\ fdone.prev.name = "oracle"
    /\ op.a = fdone.prev.a /\ op.b = fdone.prev.b
    /\ fdone.prev.full = {}
    /\ fdone.full = {}

(***************************************************************************)
(* C26.  After any update of a device by its VPP controller, for every     *)
(* device kind, SOC value, base power and frequency deviation,             *)
(* min_output_kW <= current_power_kW <= max_output_kW; hence the bound     *)
(* holds at every scheduler step of a run, the devices being constructed   *)
(* with their base power as main() constructs them.                        *)
(***************************************************************************)
WithinLimits(config, p) == config.min_output_kW <= p /\ p <= config.max_output_kW

C26_PowerWithinOutputLimits ==
    \A e \in DOMAIN phys_states :
        (e \in fdone.updated \/ WithinLimits(freq_configs[e], freq_configs[e].base_power_kW))
        => WithinLimits(freq_configs[e], phys_states[e].current_power_kW)

\* the last trigger made the controller of device 1 update it, the response
\* to the deviation lay beyond an output limit, and the device is at that limit
C26_Witness ==
    /\ IsSample
    /\ 1 \in fdone.full
    /\ LET config == freq_configs[1]
           p == ResponsePower(config, phys_states[1].soc, op.b)
       IN  \/ p > config.max_output_kW /\ phys_states[1].current_power_kW = config.max_output_kW
           \/ p < config.min_output_kW /\ phys_states[1].current_power_kW = config.min_output_kW

(***************************************************************************)
(* C27.  Every device's soc is within [0.0, 1.0] after every SOC           *)
(* integration step, for every power, elapsed time and device kind; hence  *)
(* 0 <= soc <= 1 holds at every scheduler step of a run, the devices being *)
(* constructed with a soc in that range as main() constructs them.         *)
(***************************************************************************)
C27_SocWithinUnitInterval ==
    \A e \in DOMAIN phys_states : 0 <= phys_states[e].soc /\ phys_states[e].soc <= 1000000

\* the last trigger made controller 1 integrate the SOC of device 1 over a
\* positive time, the integral left [0.0, 1.0], and the soc is at its edge
C27_Witness ==
    /\ IsSample
    /\ 1 \in fdone.full
    /\ 1 \in fdone.integrated
    /\ LET dt == dt_since_last_full_update(fpre.vpp[1], LastInfo)
           soc == IntegrateSoc_NoClamp(freq_configs[1], fpre.phys_states[1], dt)
       IN  /\ dt > 0
           /\ \/ soc < 0 /\ phys_states[1].soc = 0
              \/ soc > 1000000 /\ phys_states[1].soc = 1000000

(***************************************************************************)
(* C28.  Each record of the oracle carries a total power equal to the sum  *)
(* of current_power_kW over the union of the managed EV and ESS entities,  *)
(* each managed entity counted once, taken at the instant of emission,     *)
(* that is after every VPP controller has processed the FrequencyUpdate of *)
(* the same oracle step.                                                   *)
(* Stated as the claim states it; it fails under SpecFrequency when an     *)
(* entity is in both vectors.                                              *)
(***************************************************************************)
ElementsOf(list) == {list[i] : i \in 1..Len(list)}

\* the sum of current_power_kW over a set of entities, each counted once
RECURSIVE PowerOf(_, _)
PowerOf(sts, entities) ==
    IF entities = {} THEN 0
    ELSE LET e == CHOOSE x \in entities : TRUE
         IN  (IF e \in DOMAIN sts THEN sts[e].current_power_kW ELSE 0)
             + PowerOf(sts, entities \ {e})

C28_RecordTotalsTheUnion ==
    op.name = "oracle"
    => /\ oracle.record.total_vpp_power_kw
              = PowerOf(phys_states, ElementsOf(ev_entities) \cup ElementsOf(ess_entities))
       /\ \A k \in Controllers :
              vpp[k].last_processed_event_time_s = oracle.record.time

\* the same for vectors that share no entity, as main() fills them
C28_DisjointVectorsTotalled ==
    (op.name = "oracle" /\ ElementsOf(ev_entities) \cap ElementsOf(ess_entities) = {})
    => oracle.record.total_vpp_power_kw
           = PowerOf(phys_states, ElementsOf(ev_entities) \cup ElementsOf(ess_entities))

(***************************************************************************)
(* Device 1 is a pile scheduled to charge, and the last trigger made its   *)
(* controller update it on an under-frequency beyond the deadband.         *)
(***************************************************************************)
ChargingPileUnderFrequency ==
    /\ IsSample
    /\ 1 \in fdone.full
    /\ freq_configs[1].type = EV_PILE
    /\ freq_configs[1].base_power_kW < 0
    /\ op.b < 0
    /\ std_abs(op.b) > freq_configs[1].deadband_Hz

\* -gain_kW_per_Hz * effective_df_drop for device 1 and the last sample
DischargingValue == (-freq_configs[1].gain_kW_per_Hz) * (op.b + freq_configs[1].deadband_Hz)

(***************************************************************************)
(* C29.  An EV pile whose soc is exactly equal to soc_min_threshold and    *)
(* that is charging (negative base power), under an under-frequency beyond *)
(* the deadband, is not held at power 0: it gets the response to the       *)
(* deviation; only a soc strictly below the threshold holds it at 0.       *)
(* Stated as the claim states it; it fails under SpecFrequency.            *)
(***************************************************************************)
C29_PileAtThresholdNotHeldAtZero ==
    ChargingPileUnderFrequency
    => /\ phys_states[1].soc = freq_configs[1].soc_min_threshold
              => /\ phys_states[1].current_power_kW # 0
                 /\ phys_states[1].current_power_kW = LimitOutput(freq_configs[1], DischargingValue)
       /\ phys_states[1].soc < freq_configs[1].soc_min_threshold
              => phys_states[1].current_power_kW = 0

\* a charging pile exactly at its threshold has been updated on an under-frequency
C29_PileAtThresholdUpdated ==
    /\ ChargingPileUnderFrequency
    /\ phys_states[1].soc = freq_configs[1].soc_min_threshold
    /\ phys_states[1].current_power_kW = 0

(***************************************************************************)
(* C30.  EV SOC guard: under an under-frequency beyond the deadband an EV  *)
(* pile with soc < soc_min_threshold and a charging base power gets power  *)
(* 0, never the computed discharging value; and after any full update an   *)
(* EV pile with soc <= soc_min_threshold never has power > 0 and one with  *)
(* soc >= soc_max_threshold never has power < 0.                           *)
(***************************************************************************)
C30_SocGuardHolds ==
    /\ ( ChargingPileUnderFrequency
         /\ phys_states[1].soc < freq_configs[1].soc_min_threshold )
       => phys_states[1].current_power_kW = 0
    /\ \A e \in fdone.updated :
          freq_configs[e].type = EV_PILE
          => /\ phys_states[e].soc <= freq_configs[e].soc_min_threshold
                    => phys_states[e].current_power_kW <= 0
             /\ phys_states[e].soc >= freq_configs[e].soc_max_threshold
                    => phys_states[e].current_power_kW >= 0

\* a charging pile below its threshold has been updated on an under-frequency
\* whose discharging value is positive, and its power is 0
C30_Witness ==
    /\ ChargingPileUnderFrequency
    /\ phys_states[1].soc < freq_configs[1].soc_min_threshold
    /\ DischargingValue > 0
    /\ phys_states[1].current_power_kW = 0

\* a pile at or above soc_max_threshold, scheduled to charge, has been updated
C30_WitnessFull ==
    /\ IsSample
    /\ 1 \in fdone.full
    /\ freq_configs[1].type = EV_PILE
    /\ phys_states[1].soc >= freq_configs[1].soc_max_threshold
    /\ LimitOutput(freq_configs[1], ResponsePower(freq_configs[1], phys_states[1].soc, op.b)) < 0
    /\ phys_states[1].current_power_kW = 0

(***************************************************************************)
(* C31.  VPP gating: on each accepted (non-discarded) sample the           *)
(* controller performs a full update if and only if no full update has     *)
(* happened before, or the absolute difference between freq_dev and the    *)
(* freq_dev of the last full update is > 0.01 Hz, or sim_time minus the    *)
(* time of the last full update is >= 1.0 s; when no full update is        *)
(* performed, no device's power or SOC changes and the last-full-update    *)
(* time and frequency are unchanged.                                       *)
(***************************************************************************)
\* controller k accepted the sample of the last trigger
Accepted(k) == IsSample /\ ~Discarded(k)

C31_FullUpdateIffGated ==
    /\ \A k \in Controllers :
          Accepted(k)
          => /\ k \in fdone.full
                 <=> \/ k \notin fdone.fullbefore
                     \/ std_abs(op.b - fpre.vpp[k].vpp_instance_last_full_update_freq_dev_hz) > 10
                     \/ op.a - fpre.vpp[k].vpp_instance_last_full_update_time_s >= 100
             /\ k \notin fdone.full
                 => /\ vpp[k].vpp_instance_last_full_update_time_s
                           = fpre.vpp[k].vpp_instance_last_full_update_time_s
                    /\ vpp[k].vpp_instance_last_full_update_freq_dev_hz
                           = fpre.vpp[k].vpp_instance_last_full_update_freq_dev_hz
    /\ \A e \in DOMAIN phys_states :
          (IsSample /\ ManagersOf(e) \cap fdone.full = {}) => phys_states[e] = fpre.phys_states[e]

\* controller 1 did a full update for the heartbeat alone: 1.0 s after its
\* last one, on a deviation within 0.01 Hz of that one's
C31_Witness ==
    /\ Accepted(1)
    /\ 1 \in fdone.fullbefore
    /\ 1 \in fdone.full
    /\ std_abs(op.b - fpre.vpp[1].vpp_instance_last_full_update_freq_dev_hz) <= 10
    /\ op.a - fpre.vpp[1].vpp_instance_last_full_update_time_s = 100

\* controller 1 accepted a sample and did no full update, its device running
C31_WitnessNoUpdate ==
    /\ Accepted(1)
    /\ 1 \notin fdone.full
    /\ op.b # fpre.vpp[1].vpp_instance_last_full_update_freq_dev_hz
    /\ phys_states[1].current_power_kW # 0

(***************************************************************************)
(* C32.  Deadband boundary: when the absolute frequency deviation equals   *)
(* deadband_Hz exactly (either sign), a full update produces no frequency  *)
(* response: the device's new power is its base power, subject only to the *)
(* output limits and the EV SOC guard.                                     *)
(***************************************************************************)
\* the base power of a device within its limits, and 0 where the guard of a
\* pile forbids its sign
BasePowerLimitedAndGuarded(config, soc) ==
    LET b == IF config.base_power_kW > config.max_output_kW THEN config.max_output_kW
             ELSE IF config.base_power_kW < config.min_output_kW THEN config.min_output_kW
             ELSE config.base_power_kW
    IN  IF /\ config.type = EV_PILE
           /\ \/ b < 0 /\ soc >= config.soc_max_threshold
              \/ b > 0 /\ soc <= config.soc_min_threshold
        THEN 0 ELSE b

C32_NoResponseAtDeadbandEdge ==
    \A e \in DOMAIN phys_states :
        ( /\ IsSample
          /\ ManagersOf(e) \cap fdone.full # {}
          /\ std_abs(op.b) = freq_configs[e].deadband_Hz )
        => phys_states[e].current_power_kW
               = BasePowerLimitedAndGuarded(freq_configs[e], phys_states[e].soc)

\* a pile that had answered an under-frequency was updated on a deviation of
\* exactly minus the deadband and is back at its base power
C32_Witness ==
    /\ IsSample
    /\ 1 \in fdone.full
    /\ op.b = -freq_configs[1].deadband_Hz
    /\ freq_configs[1].type = EV_PILE
    /\ fpre.phys_states[1].current_power_kW > 0
    /\ phys_states[1].current_power_kW = freq_configs[1].base_power_kW
    /\ freq_configs[1].base_power_kW < 0

\* the same at plus the deadband, for the storage unit
C32_WitnessRise ==
    /\ IsSample
    /\ 2 \in fdone.full
    /\ op.b = freq_configs[2].deadband_Hz
    /\ fpre.phys_states[2].current_power_kW # 0
    /\ phys_states[2].current_power_kW = 0

(***************************************************************************)
(* The protective components and FaultInfo called directly: a FaultInfo is *)
(* built, its impedance is derived as the engine and the injector derive   *)
(* it, and a component is asked about it.  ret is the FaultInfo object and *)
(* what the component answered.                                            *)
(***************************************************************************)
\* the settings of ComponentTable, and a distance relay whose zones shrink
RelayTable == ComponentTable \o << DIST(1500, 0, 1000, 300, 500, 700) >>

\* impedances at, between and beyond the zone settings (0.01 Ohm)
ImpedanceValues == {0, 500, 501, 1000, 1500, 1501, 2000, 2001, 2500, 2501}

\* the FaultInfo objects built
RelayFaults ==
    [current_kA : {0, 30, 150}, faulty_entity_id : 0..MaxEntities,
     impedance_Ohm : ImpedanceValues, voltage_kV : {0, 220}]

RelayCall(name, a, b, result) ==
    /\ op' = [name |-> name, a |-> a, b |-> b]
    /\ ret' = result
    /\ UNCHANGED <<now, ready, timers, handlers, active, alive, otherq, tasks, tseq, sseq,
                   fired, ub, components, last_id, preg, openings, running, pre, log>>
    /\ UNCHANGED freqvars

IsRelayCall == op.name \in {"calculate", "calculate_again", "pick_up", "trip_delay_ms"}

\* FaultInfo f; ...; f.calculate_impedance_if_needed();
Calculate ==
    \E f \in RelayFaults :
        RelayCall("calculate", f, f,
                  [delay |-> 0, fault |-> calculate_impedance_if_needed(f), picked |-> FALSE])

\* f.calculate_impedance_if_needed() once more, as ProtectionSystem::run does
\* with a fault the injector has derived
CalculateAgain ==
    /\ op.name = "calculate"
    /\ RelayCall("calculate_again", ret.fault, op.b,
                 [delay |-> 0, fault |-> calculate_impedance_if_needed(ret.fault), picked |-> FALSE])

\* comp.pick_up(f, entity_id)
PickUp ==
    /\ op.name \in {"calculate", "calculate_again"}
    /\ \E c \in DOMAIN RelayTable, e \in 1..MaxEntities :
          RelayCall("pick_up", [comp |-> c, self |-> e], op.b,
                    [ret EXCEPT !.picked = pick_up(RelayTable[c], ret.fault, e)])

\* comp.trip_delay_ms(f)
TripDelay ==
    /\ op.name \in {"calculate", "calculate_again"}
    /\ \E c \in DOMAIN RelayTable :
          RelayCall("trip_delay_ms", [comp |-> c, self |-> 0], op.b,
                    [ret EXCEPT !.delay = trip_delay_ms(RelayTable[c], ret.fault)])

NextRelay == Calculate \/ CalculateAgain \/ PickUp \/ TripDelay

SpecRelay == Init /\ [][NextRelay]_vars

\* the last call asked a distance relay
OfDistance(name) ==
    /\ op.name = name
    /\ RelayTable[op.a.comp].kind = "DistanceProtection"

\* the impedance of the fault lies within zone i of the relay asked
InZone(i) == ret.fault.impedance_Ohm <= RelayTable[op.a.comp].z_set[i]

(***************************************************************************)
(* C33.  DistanceProtection.pick_up: for a fault on a different entity     *)
(* (faulty_entity_id differs from the component's own entity and is not 0) *)
(* it picks up if and only if impedance <= z3, so a different-entity fault *)
(* with impedance > z3 is never picked up; for a fault on its own entity,  *)
(* or with faulty_entity_id 0, it picks up if and only if the impedance is *)
(* within any of the three zones.                                          *)
(***************************************************************************)
C33_DistancePickUp ==
    OfDistance("pick_up")
    => IF ret.fault.faulty_entity_id # op.a.self /\ ret.fault.faulty_entity_id # 0
       THEN ret.picked <=> InZone(3)
       ELSE ret.picked <=> (InZone(1) \/ InZone(2) \/ InZone(3))

\* a fault on another entity, exactly at z3, was picked up
C33_Witness ==
    /\ OfDistance("pick_up")
    /\ ret.fault.faulty_entity_id \notin {0, op.a.self}
    /\ ret.fault.impedance_Ohm = RelayTable[op.a.comp].z_set[3]
    /\ ret.picked

\* a fault on another entity within zone 1 and beyond z3 was not picked up
C33_WitnessBeyond ==
    /\ OfDistance("pick_up")
    /\ ret.fault.faulty_entity_id \notin {0, op.a.self}
    /\ InZone(1) /\ ~InZone(3)
    /\ ~ret.picked

(***************************************************************************)
(* C34.  DistanceProtection.trip_delay_ms returns the delay of the         *)
(* smallest zone the fault falls into: t1 if impedance <= z1, else t2 if   *)
(* <= z2, else t3 if <= z3, else the no-trip sentinel 99999 ms; and        *)
(* whenever pick_up is true for a fault the returned delay is one of t1,   *)
(* t2, t3, so the engine never schedules a trip with the sentinel.         *)
(***************************************************************************)
C34_DistanceTripDelay ==
    OfDistance("trip_delay_ms")
    => LET t == RelayTable[op.a.comp].t_ms
       IN  /\ InZone(1) => ret.delay = t[1]
           /\ (~InZone(1) /\ InZone(2)) => ret.delay = t[2]
           /\ (~InZone(1) /\ ~InZone(2) /\ InZone(3)) => ret.delay = t[3]
           /\ (~InZone(1) /\ ~InZone(2) /\ ~InZone(3)) => ret.delay = 99999
           /\ \A e \in 1..MaxEntities :
                 pick_up(RelayTable[op.a.comp], ret.fault, e)
                 => ret.delay \in {t[1], t[2], t[3]} /\ ret.delay # 99999

\* a fault in the third zone only, which the relay picks up, got t3
C34_Witness ==
    /\ OfDistance("trip_delay_ms")
    /\ ~InZone(1) /\ ~InZone(2) /\ InZone(3)
    /\ pick_up(RelayTable[op.a.comp], ret.fault, 1)
    /\ ret.delay = RelayTable[op.a.comp].t_ms[3]

\* a fault beyond every zone got the sentinel
C34_WitnessSentinel ==
    /\ OfDistance("trip_delay_ms")
    /\ ~InZone(1) /\ ~InZone(2) /\ ~InZone(3)
    /\ ret.delay = 99999

(***************************************************************************)
(* C35.  Impedance derivation changes a fault's impedance only when it is  *)
(* 0 and both voltage and current are positive, and then sets it to        *)
(* voltage_kV / current_kA; applying it twice equals applying it once; a   *)
(* fault with current 0 and voltage > 0 keeps impedance 0 and is picked up *)
(* by distance protection as a zone-1 fault (trip delay t1).               *)
(***************************************************************************)
C35_ImpedanceDerivation ==
    /\ op.name = "calculate"
       => /\ ret.fault = [op.b EXCEPT !.impedance_Ohm = ret.fault.impedance_Ohm]
          /\ IF op.b.impedance_Ohm = 0 /\ op.b.voltage_kV > 0 /\ op.b.current_kA > 0
             THEN ret.fault.impedance_Ohm = (op.b.voltage_kV * 1000) \div op.b.current_kA
             ELSE ret.fault.impedance_Ohm = op.b.impedance_Ohm
    /\ op.name = "calculate_again" => ret.fault = op.a
    /\ ( /\ op.name \in {"pick_up", "trip_delay_ms"}
         /\ op.b.current_kA = 0 /\ op.b.voltage_kV > 0 /\ op.b.impedance_Ohm = 0 )
       => /\ ret.fault.impedance_Ohm = 0
          /\ OfDistance("pick_up") => ret.picked
          /\ OfDistance("trip_delay_ms") => ret.delay = RelayTable[op.a.comp].t_ms[1]

\* an impedance was derived, and the derivation applied again left it
C35_Witness ==
    /\ op.name = "calculate_again"
    /\ op.b.impedance_Ohm = 0
    /\ ret.fault.impedance_Ohm > 0
    /\ ret.fault = op.a

\* a fault without current kept impedance 0 and a distance relay picked it up
C35_WitnessNoCurrent ==
    /\ OfDistance("pick_up")
    /\ op.b.current_kA = 0 /\ op.b.voltage_kV > 0 /\ op.b.impedance_Ohm = 0
    /\ ret.fault.impedance_Ohm = 0
    /\ ret.picked

(***************************************************************************)
(* C36.  An EntityTrip(e) that fires while e's breaker agent is inside its *)
(* 100 ms operating delay is not delivered to that agent, because the      *)
(* agent holds no EntityTrip subscription during the delay; such a trip    *)
(* therefore produces no BreakerOpened(e), and the number of               *)
(* BreakerOpened(e) events can be smaller than the number of               *)
(* EntityTrip(e) events.                                                   *)
(***************************************************************************)
\* the agents of entity e that were inside their operating delay when the
\* last call was made
AgentsInDelay(e) ==
    {h \in 1..Len(pre.tasks) :
        /\ Scripts[pre.tasks[h].script] = circuitBreakerAgentTask_prot_Body
        /\ pre.tasks[h].args = <<e>>
        /\ pre.tasks[h].wake # -1}

C36_TripDuringDelayNotDelivered ==
    \* an agent inside its delay holds no subscription
    /\ \A h \in BreakerAgents :
          tasks[h].wake # -1 => \A k \in 1..Len(handlers) : handlers[k].h # h
    \* a trip of its entity then passes it by
    /\ \A h \in AgentsInDelay(op.a) :
          IsCall({"trigger_trip"})
          => /\ \A m \in Idx : log[m].h # h
             /\ tasks[h] = pre.tasks[h]
             /\ timers = pre.timers
             /\ \A j \in Idx : ~(log[j].k = "trig" /\ log[j].a = BREAKER_OPENED_EVENT)
             /\ BreakerOpenings(log) = <<>>

\* a trip of entity 1 was triggered while its agent was inside the delay that
\* an earlier trip had started, and the other agent received it
C36_Witness ==
    /\ IsCall({"trigger_trip"})
    /\ op.a = 1
    /\ AgentsInDelay(1) # {}
    /\ \E m \in Idx : log[m].k = "handler" /\ log[m].b = 1
    /\ Cardinality({k \in 1..Len(timers) : tasks[timers[k].h].args = <<1>>}) = 1

(***************************************************************************)
(* C37.  delay(d) with d <= 0 does not suspend: the task continues in the  *)
(* same step without entering the timer queue.  Hence a protective         *)
(* component whose trip delay is 0 (distance zone 1 with t1 = 0) emits its *)
(* EntityTrip synchronously inside inject_fault, at the fault's own        *)
(* virtual time and before inject_fault returns, and subscribers of        *)
(* EntityTrip run nested inside that call.                                 *)
(* Stated as the claim states it; it fails under SpecProtection.           *)
(***************************************************************************)
\* the components the registry holds that pick up the fault handled at index
\* i with a trip delay of 0, each with its entity
TrippingAtOnce(i) ==
    {pr \in ProtectivePairs :
        LET c == Registry_get(components, pr[1], pr[2])
        IN  /\ c # 0
            /\ pick_up(ComponentTable[c], FaultOf(i), pr[2])
            /\ trip_delay_ms(ComponentTable[c], FaultOf(i)) = 0}

C37_ZeroDelayTripInsideInjectFault ==
    \A i \in Idx : FaultAt(i) =>
        \A pr \in TrippingAtOnce(i) :
            \E j \in Idx :
                /\ i < j /\ j < TrigEndOf(i)
                /\ log[j].k = "trig" /\ log[j].a = ENTITY_TRIP_EVENT_PROT /\ log[j].b = pr[2]
                /\ log[j].now = log[i].now
                /\ \A m \in Idx : log[m].k = "timer" => log[m].h # log[j].who

\* the engine has handled a fault within zone 1 of a distance relay the
\* registry holds
C37_ZoneOneFaultHandled ==
    \E i \in Idx : FaultAt(i) /\ ParkOf(i + 2) # 0 /\ TrippingAtOnce(i) # {}


(***************************************************************************)
(* C38.  run_until(end), called with now() < end, against stepping: the    *)
(* owner calls run_one_step() as long as the ready queue is non-empty or   *)
(* the earliest timer is due before end, and then sets the time to end.    *)
(***************************************************************************)
RECURSIVE StepWhile(_, _)
\* while (!ready_tasks_.empty() || earliest deadline < end_time) run_one_step();
StepWhile(s, end_time) ==
    IF s.ready # <<>> \/ (s.timers # <<>> /\ s.timers[1].key < end_time)
    THEN StepWhile(run_one_step(s), end_time)
    ELSE s

\* ... followed by set_time(end_time)
SteppedUntil(s, end_time) == set_time(StepWhile(s, end_time), end_time)

\* C38: a call run_until(end) made with now() < end leaves what stepping
\* leaves: the same continuations have been popped, resumed, parked and fired
\* in the same order at the same virtual times (the record of the call is the
\* same, entry by entry), and the time, the ready queue, the timer queue, the
\* subscription map and the coroutines' positions are the same.
C38_RunUntilEquivalentToStepping ==
    [][(op'.name = "run_until" /\ now < op'.a) =>
          LET r == SteppedUntil(Cur, op'.a)
          IN  /\ log' = r.log
              /\ now' = r.now
              /\ ready' = r.ready
              /\ timers' = r.timers
              /\ handlers' = r.handlers
              /\ tasks' = r.tasks
              /\ fired' = r.fired]_vars

\* run_until(end) has resumed continuations at two different virtual times
\* before end, the second one from a timer fired during the call, and has left
\* a timer due at end or later in the queue
C38_Witness ==
    /\ IsCall({"run_until"})
    /\ pre.now < op.a
    /\ timers # <<>>
    /\ \E i \in Idx, j \in Idx :
          /\ i < j
          /\ log[i].k = "resume" /\ log[j].k = "resume"
          /\ log[i].now < log[j].now
          /\ log[j].now < op.a


(***************************************************************************)
(* C39.  run_until, one statement at a time.  `running` holds the call in  *)
(* progress: its end_time and the place it has reached,                    *)
(*   "while"   the test of the outer loop                                  *)
(*   "drain"   the inner loop over ready_tasks_ and the `if` after it      *)
(*   "return"  the statement after the outer loop                          *)
(*   "none"    no call in progress.                                        *)
(* The owner creates its coroutines and then calls run_until with end      *)
(* times up to MaxRunEnd.                                                  *)
(***************************************************************************)
MaxRunEnd == 3

\* more frames, timers and subscriptions than a run up to MaxRunEnd makes
\* with delays of at least 1 ms
RunLimit == (MaxTasks + MaxRunEnd) * (MaxRunEnd + 1)

BoundedRun(r) ==
    /\ Len(r.tasks) <= RunLimit
    /\ r.tseq <= RunLimit
    /\ r.sseq <= RunLimit

\* current_time_ < end_time && (!ready_tasks_.empty() || !timed_tasks_.empty())
run_until_continues(s, end_time) ==
    s.now < end_time /\ (s.ready # <<>> \/ s.timers # <<>>)

At(place) == running.at = place

\* the owner calls scheduler.run_until(end_time)
RunUntilCall ==
    \E end_time \in 1..MaxRunEnd :
        /\ At("none")
        /\ "this" \in alive
        /\ running' = [at |-> "while", end_time |-> end_time]
        /\ Effects(Cur, "run_until_call", end_time, 0)

\* while (current_time_ < end_time && (...))
RunUntilWhile ==
    /\ At("while")
    /\ running' = [running EXCEPT
                      !.at = IF run_until_continues(Cur, running.end_time)
                             THEN "drain" ELSE "return"]
    /\ Effects(Cur, "run_until_while", running.end_time, 0)

\* one turn of while (!ready_tasks_.empty()) { ... }
RunUntilResume ==
    /\ At("drain")
    /\ ready # <<>>
    /\ LET r == PopAndResume(Cur)
       IN  BoundedRun(r) /\ Effects(r, "run_until_resume", running.end_time, 0)
    /\ UNCHANGED running

\* if (ready_tasks_.empty() && !timed_tasks_.empty()) { ... }
RunUntilTimers ==
    /\ At("drain")
    /\ ready = <<>>
    /\ IF timers # <<>>
       THEN LET next_event_time == timers[1].key
            IN  IF next_event_time >= running.end_time
                THEN /\ Effects(set_time(Cur, running.end_time),
                                "run_until_timers", running.end_time, 0)
                     /\ running' = [running EXCEPT !.at = "return"]
                ELSE /\ Effects(MigrateDue(set_time(Cur, next_event_time)),
                                "run_until_timers", running.end_time, 0)
                     /\ running' = [running EXCEPT !.at = "while"]
       ELSE /\ Effects(Cur, "run_until_timers", running.end_time, 0)
            /\ running' = [running EXCEPT !.at = "while"]

\* if (current_time_ < end_time) set_time(end_time);  and the call returns
RunUntilReturn ==
    /\ At("return")
    /\ Effects(IF now < running.end_time THEN set_time(Cur, running.end_time) ELSE Cur,
               "run_until_return", running.end_time, 0)
    /\ running' = [at |-> "none", end_time |-> 0]

NextRun == Spawn \/ RunUntilCall \/ RunUntilWhile \/ RunUntilResume \/ RunUntilTimers
              \/ RunUntilReturn

\* ENABLED <<RunUntilResume>>_vars, as the state predicate it is: the
\* statement always changes ready_tasks_
RunUntilResumeEnabled ==
    At("drain") /\ ready # <<>> /\ BoundedRun(PopAndResume(Cur))

\* WF_vars(RunUntilResume)
RunUntilResumeFair ==
    []<>(~RunUntilResumeEnabled) \/ []<><<RunUntilResume>>_vars

\* ENABLED <<RunUntilTimers>>_vars: the statement always changes `running`
RunUntilTimersEnabled == At("drain") /\ ready = <<>>

\* WF_vars(RunUntilTimers)
RunUntilTimersFair ==
    []<>(~RunUntilTimersEnabled) \/ []<><<RunUntilTimers>>_vars

\* the thread that called run_until goes on executing it, statement after
\* statement
SpecRun ==
    /\ Init /\ [][NextRun]_vars
    /\ WF_vars(RunUntilWhile)
    /\ RunUntilTimersFair
    /\ WF_vars(RunUntilReturn)
    /\ RunUntilResumeFair

\* a coroutine whose body is a while (true) loop and that has not finished
Periodic(h) == Scripts[tasks[h].script].loop /\ tasks[h].status = "suspended"

\* C39: every call of run_until returns: a call in progress, with coroutines
\* whose bodies reach a suspension point or end after finitely many statements
\* and whose delays are of 1 ms or more, is followed by its return, whether
\* or not never-ending periodic coroutines are among them.
C39_RunUntilTerminates == (~At("none")) ~> At("none")

\* run_until(end) has returned at end while a never-ending periodic
\* coroutine is suspended in a delay, its timer still in the queue
C39_Witness ==
    /\ op.name = "run_until_return"
    /\ At("none")
    /\ now = op.a
    /\ \E k \in 1..Len(timers) : Periodic(timers[k].h) /\ timers[k].key >= now


(***************************************************************************)
(* C40.  Events are not buffered.                                          *)
(***************************************************************************)
\* the owner has called trigger_event(id, ...) while event_handlers_ held no
\* handler for id
TriggerWithoutSubscriber ==
    /\ IsCall({"trigger_event"})
    /\ SelectSeq(pre.handlers, LAMBDA e : e.key = op.a) = <<>>

\* the triggers of event id recorded between the entries p and m
TriggersBetween(id, p, m) ==
    {i \in Idx : p < i /\ i < m /\ log[i].k = "trig" /\ log[i].a = id}

\* C40: a trigger_event(id, ...) made while no continuation is subscribed to
\* id calls no handler and changes nothing: the time, the ready queue, the
\* timer queue, the subscriptions of every event id and the coroutines are
\* what they were.  A coroutine that subscribes to id is resumed only by a
\* trigger of id made after it subscribed; until then it stays suspended and
\* subscribed.
C40_EventsNotBuffered ==
    /\ TriggerWithoutSubscriber =>
          /\ Len(log) = 2
          /\ log[1].k = "trig" /\ log[2].k = "trigend" /\ log[2].b = 0
          /\ now = pre.now
          /\ ready = pre.ready
          /\ timers = pre.timers
          /\ handlers = pre.handlers
          /\ tasks = pre.tasks
          /\ fired = pre.fired
    \* a coroutine that subscribes during a call
    /\ \A p \in Idx : (log[p].k = "park" /\ log[p].a = 1) =>
          LET h == log[p].h
              id == log[p].b
              later == {m \in Idx : m > p /\ log[m].k = "resume" /\ log[m].h = h}
          IN  /\ \A m \in later : TriggersBetween(id, p, m) # {}
              /\ later = {} =>
                    /\ tasks[h].status = "suspended"
                    /\ \E k \in 1..Len(handlers) : handlers[k].h = h /\ handlers[k].key = id
    \* a coroutine that was subscribed when the call was made
    /\ \A k \in 1..Len(pre.handlers) :
          LET h == pre.handlers[k].h
              id == pre.handlers[k].key
              resumed == {m \in Idx : log[m].k = "resume" /\ log[m].h = h}
          IN  /\ \A m \in resumed : TriggersBetween(id, 0, m) # {}
              /\ resumed = {} => \E n \in 1..Len(handlers) : handlers[n] = pre.handlers[k]

\* the owner triggers an event nobody is subscribed to, while other events
\* have subscribers and a coroutine that will subscribe to this event at the
\* end of its delay is in the timer queue
C40_Witness ==
    /\ TriggerWithoutSubscriber
    /\ handlers # <<>>
    /\ \E k \in 1..Len(timers) :
          LET f == tasks[timers[k].h]
              code == Scripts[f.script].code
          IN  /\ f.status = "suspended"
              /\ \E c \in 1..Len(code) : code[c].op = "wait" /\ code[c].n = op.a

====
